---- MODULE Spec2Model ----
(***************************************************************************)
(* Model of the anomaly-scoring-and-decision pipeline: the risk lookup,    *)
(* the action policy, the review gate, the semantic labeler, the mean-diff *)
(* reference model, the heatmap normaliser and run_pipeline.               *)
(*                                                                         *)
(* Python floats are held as integers in units of 1/Scale.  A value that   *)
(* may be None is held as a tuple: None is <<>> and a present value v is   *)
(* <<v>>.                                                                  *)
(***************************************************************************)
EXTENDS Integers, Sequences, FiniteSets, TLC

VARIABLES
    call,        \* the last call made: its operation and its arguments
    ret,         \* what that call returned or raised
    rpm_table,   \* cfg["risk"]["rpm"], the list of RPM rows
    mean,        \* MeanDiffModel.mean
    std,         \* MeanDiffModel.std
    shape,       \* MeanDiffModel.shape
    last_fit,    \* history: the images of the latest fit that returned
    cfg,         \* run_pipeline: the configuration
    env,         \* run_pipeline: which optional packages imported
    dataset,     \* run_pipeline: the train images and the test samples
    pos,         \* run_pipeline: the test sample the loop is at
    results,     \* run_pipeline: results
    files,       \* run_pipeline: the artifact files written, by path
    calls_made,  \* history: the calls run_pipeline made to the labeler and
                 \* to the confidence fusion, with their arguments
    pc,          \* run_pipeline: "idle", "start", "loop", "returned", "raised"
    users,       \* web API: table users, by id
    tokens,      \* web API: the access tokens issued by /auth/login
    status_images, \* web API: table product_status_images, committed rows
    scans,       \* web API: table scans, by id
    scan_images, \* web API: table scan_images
    stored,      \* web API: the files under the storage root, by path
    issued,      \* web API: how many uuid4 values were drawn
    reqs,        \* web API: the requests being served, by worker
    resp,        \* history: the last response sent, with its request
    created,     \* history: the scans whose creation was answered 201
    running,     \* CameraService._running, the Event's flag
    thread,      \* CameraService._thread
    threads,     \* the capture threads started so far: where each one is
    cam_pc,      \* the caller of CameraService: "idle", or "join" in stop
    cap,         \* CameraService._cap: the capture, who opened it, is it open
    callers      \* MeanDiffModel: the calls in progress, by thread

pipe == <<cfg, env, dataset, pos, results, files, calls_made, pc>>

web == <<users, tokens, status_images, scans, scan_images, stored, issued,
         reqs, resp, created>>

cam == <<running, thread, threads, cam_pc, cap>>

app == <<web, cam, callers>>

core == <<call, ret, rpm_table, mean, std, shape, last_fit, pipe>>

vars == <<core, app>>

(***************************************************************************)
(* Values                                                                  *)
(***************************************************************************)
None == <<>>
Some(v) == <<v>>
Val(o) == o[1]

\* One unit of a Python float is 1/Scale = 1e-6; a square root is taken to
\* 1/SqrtScale.
SqrtScale == 1000
Scale == SqrtScale * SqrtScale

Min(a, b) == IF a <= b THEN a ELSE b
Max(a, b) == IF a >= b THEN a ELSE b

\* dict.get(key, default) on a dict held as a function over its keys
DictGet(d, k, default) == IF k \in DOMAIN d THEN Some(d[k]) ELSE default

\* No call made yet: each behaviour applies one operation to its inputs.
NoCall == [op |-> "none"]

\* run_pipeline is not running.
NoPipeline ==
    /\ cfg = None
    /\ env = None
    /\ dataset = None
    /\ pos = 0
    /\ results = <<>>
    /\ files = <<>>
    /\ calls_made = <<>>
    /\ pc = "idle"

\* The web API serves nothing: its tables and its storage root are empty.
NoWeb ==
    /\ users = <<>>
    /\ tokens = {}
    /\ status_images = {}
    /\ scans = {}
    /\ scan_images = {}
    /\ stored = {}
    /\ issued = 0
    /\ reqs = <<>>
    /\ resp = None
    /\ created = {}

\* CameraService.__init__: no thread, the Event clear
NoCamera ==
    /\ running = FALSE
    /\ thread = None
    /\ threads = <<>>
    /\ cam_pc = "idle"
    /\ cap = None

NoApp == NoWeb /\ NoCamera /\ callers = <<>>

(***************************************************************************)
(* Bounds                                                                  *)
(***************************************************************************)
MaxRows == 2        \* rows of an RPM table
GridSteps == 4      \* confidences and thresholds are k/GridSteps
MaxTrain == 2       \* images given to one fit
MaxHeat == 2        \* small heatmap values are 0..MaxHeat
MaxText == 4        \* tokens of a model response
MaxBoxes == 3       \* bbox_count given to the labeler
MaxSamples == 2     \* test samples of one run_pipeline
MaxWidth == 3       \* width of the one-row arrays given to the post-processing

(***************************************************************************)
(* risk/rpm.py                                                             *)
(***************************************************************************)
\* What row.get(key) gives for each key: None when the row lacks the key.
RpmRows ==
    [severity   : {None, Some(1), Some(2)},
     occurrence : {None, Some(1)},
     detection  : {Some(1)},
     risk_score : {None, Some(5)},
     risk_class : {None, Some("LOW"), Some("HIGH")}]

RpmTables == UNION {[1..n -> RpmRows] : n \in 0..MaxRows}

KeyArgs == {None, Some(1), Some(2)}

RowMatches(row, severity, occurrence, detection) ==
    /\ row.severity = severity
    /\ row.occurrence = occurrence
    /\ row.detection = detection

RECURSIVE ScanRows(_, _, _, _, _)
ScanRows(table, i, severity, occurrence, detection) ==
    IF i > Len(table) THEN <<None, None>>
    ELSE IF RowMatches(table[i], severity, occurrence, detection)
         THEN <<table[i].risk_score, table[i].risk_class>>
         ELSE ScanRows(table, i + 1, severity, occurrence, detection)

ScanRowsLast(table, i, severity, occurrence, detection) ==
    LET hits == {j \in i..Len(table) :
                    RowMatches(table[j], severity, occurrence, detection)}
    IN  IF hits = {} THEN <<None, None>>
        ELSE LET j == CHOOSE k \in hits : \A m \in hits : m <= k
             IN  <<table[j].risk_score, table[j].risk_class>>

lookup_risk_loose(table, severity, occurrence, detection) ==
    ScanRowsLast(table, 1, severity, occurrence, detection)

lookup_risk(table, severity, occurrence, detection) ==
    IF severity = None \/ occurrence = None \/ detection = None
    THEN <<None, None>>
    ELSE ScanRows(table, 1, severity, occurrence, detection)

lookup_risk_strict_unguarded(table, severity, occurrence, detection) ==
    LET r == lookup_risk(table, severity, occurrence, detection)
    IN  IF r[1] = None THEN <<None, Some("REVIEW_REQUIRED")>> ELSE r

\* int(score) and str(risk_class) of an int score and a str class are the
\* values themselves.
lookup_risk_strict(table, severity, occurrence, detection) ==
    LET r == lookup_risk(table, severity, occurrence, detection)
    IN  IF r[1] = None \/ r[2] = None
        THEN <<None, Some("REVIEW_REQUIRED")>>
        ELSE <<Some(Val(r[1])), Some(Val(r[2]))>>

LookupRisk ==
    /\ call = NoCall
    /\ \E severity \in KeyArgs, occurrence \in KeyArgs, detection \in KeyArgs :
        /\ call' = [op |-> "lookup_risk", rpm_table |-> rpm_table,
                    severity |-> severity, occurrence |-> occurrence,
                    detection |-> detection]
        /\ ret' = lookup_risk(rpm_table, severity, occurrence, detection)
        /\ UNCHANGED <<rpm_table, mean, std, shape, last_fit, pipe, app>>

LookupRiskStrict ==
    /\ call = NoCall
    /\ \E severity \in KeyArgs, occurrence \in KeyArgs, detection \in KeyArgs :
        /\ call' = [op |-> "lookup_risk_strict", rpm_table |-> rpm_table,
                    severity |-> severity, occurrence |-> occurrence,
                    detection |-> detection]
        /\ ret' = lookup_risk_strict(rpm_table, severity, occurrence, detection)
        /\ UNCHANGED <<rpm_table, mean, std, shape, last_fit, pipe, app>>

InitRisk ==
    /\ call = NoCall
    /\ ret = None
    /\ rpm_table \in RpmTables
    /\ mean = None
    /\ std = None
    /\ shape = None
    /\ last_fit = None
    /\ NoPipeline
    /\ NoApp

NextRisk == LookupRisk \/ LookupRiskStrict

SpecRisk == InitRisk /\ [][NextRisk]_vars

\* The first row of the table, in table order, whose three keys equal the
\* arguments; 0 when there is none.
FirstMatch(table, severity, occurrence, detection) ==
    LET hits == {j \in 1..Len(table) :
                    /\ table[j].severity = severity
                    /\ table[j].occurrence = occurrence
                    /\ table[j].detection = detection}
    IN  IF hits = {} THEN 0 ELSE CHOOSE j \in hits : \A m \in hits : j <= m

AnyKeyNone(c) == c.severity = None \/ c.occurrence = None \/ c.detection = None

\* C5: lookup_risk returns (None, None) when a key is None or no row matches,
\* returns the (risk_score, risk_class) of the first matching row otherwise,
\* and leaves the table as it was.
C5_LookupRisk ==
    call.op = "lookup_risk" =>
        LET j == FirstMatch(call.rpm_table, call.severity, call.occurrence,
                            call.detection)
        IN  /\ rpm_table = call.rpm_table
            /\ AnyKeyNone(call) => ret = <<None, None>>
            /\ (~AnyKeyNone(call) /\ j = 0) => ret = <<None, None>>
            /\ (~AnyKeyNone(call) /\ j > 0) =>
                   ret = <<call.rpm_table[j].risk_score,
                           call.rpm_table[j].risk_class>>

\* A lookup on a table of two rows that both carry the asked keys and differ
\* in their class, which returned the values of the first.
C5_Witness ==
    /\ call.op = "lookup_risk"
    /\ ~AnyKeyNone(call)
    /\ Len(call.rpm_table) = 2
    /\ FirstMatch(call.rpm_table, call.severity, call.occurrence,
                  call.detection) = 1
    /\ RowMatches(call.rpm_table[2], call.severity, call.occurrence,
                  call.detection)
    /\ call.rpm_table[1].risk_class # call.rpm_table[2].risk_class
    /\ ret = <<Some(5), Some("HIGH")>>

\* C6: lookup_risk_strict never returns a null risk_class: (None,
\* "REVIEW_REQUIRED") when a key is None or no row matches, and the score and
\* class of the matching row when that row carries both.
C6_LookupRiskStrict ==
    call.op = "lookup_risk_strict" =>
        LET j == FirstMatch(call.rpm_table, call.severity, call.occurrence,
                            call.detection)
        IN  /\ ret[2] # None
            /\ (AnyKeyNone(call) \/ j = 0) =>
                   ret = <<None, Some("REVIEW_REQUIRED")>>
            /\ (/\ ~AnyKeyNone(call)
                /\ j > 0
                /\ call.rpm_table[j].risk_score # None
                /\ call.rpm_table[j].risk_class # None) =>
                   ret = <<call.rpm_table[j].risk_score,
                           call.rpm_table[j].risk_class>>

\* A strict lookup whose matching row carries a score and no class.
C6_Witness ==
    /\ call.op = "lookup_risk_strict"
    /\ ~AnyKeyNone(call)
    /\ LET j == FirstMatch(call.rpm_table, call.severity, call.occurrence,
                           call.detection)
       IN  /\ j > 0
           /\ call.rpm_table[j].risk_score # None
           /\ call.rpm_table[j].risk_class = None
    /\ ret = <<None, Some("REVIEW_REQUIRED")>>

(***************************************************************************)
(* risk/policy.py and uncertainty/rules.py                                 *)
(***************************************************************************)
PolicyKeys == {"LOW", "HIGH", "REVIEW_REQUIRED"}
Actions == {"PASS", "HOLD", "MANUAL_REVIEW"}

\* risk_to_action mappings: a dict from some of the keys to actions
Mappings == UNION {[D -> Actions] : D \in SUBSET PolicyKeys}

RiskClassArgs ==
    {None, Some("LOW"), Some("HIGH"), Some("CRITICAL"), Some("REVIEW_REQUIRED")}

action_from_risk_nofallback(risk_class, mapping) ==
    IF risk_class = None
    THEN DictGet(mapping, "REVIEW_REQUIRED", None)
    ELSE DictGet(mapping, Val(risk_class), None)

action_from_risk(risk_class, mapping) ==
    IF risk_class = None
    THEN DictGet(mapping, "REVIEW_REQUIRED", None)
    ELSE DictGet(mapping, Val(risk_class),
                 DictGet(mapping, "REVIEW_REQUIRED", None))

\* Confidences and thresholds k/GridSteps, in units of 1/Scale
Grid == {(k * Scale) \div GridSteps : k \in 0..GridSteps}

GateLabels == {"scratch", "crack", "unknown"}

requires_human_review_le(confidence, label, unknown_label, threshold) ==
    IF label = unknown_label THEN TRUE ELSE confidence <= threshold

requires_human_review_by_confidence(confidence, label, unknown_label, threshold) ==
    confidence < threshold

requires_human_review(confidence, label, unknown_label, threshold) ==
    IF label = unknown_label THEN TRUE ELSE confidence < threshold

ActionFromRisk ==
    /\ call = NoCall
    /\ \E risk_class \in RiskClassArgs, mapping \in Mappings :
        /\ call' = [op |-> "action_from_risk", risk_class |-> risk_class,
                    mapping |-> mapping]
        /\ ret' = action_from_risk(risk_class, mapping)
        /\ UNCHANGED <<rpm_table, mean, std, shape, last_fit, pipe, app>>

RequiresHumanReview ==
    /\ call = NoCall
    /\ \E confidence \in Grid, threshold \in Grid,
          label \in GateLabels, unknown_label \in GateLabels :
        /\ call' = [op |-> "requires_human_review", confidence |-> confidence,
                    label |-> label, unknown_label |-> unknown_label,
                    threshold |-> threshold]
        /\ ret' = requires_human_review(confidence, label, unknown_label,
                                        threshold)
        /\ UNCHANGED <<rpm_table, mean, std, shape, last_fit, pipe, app>>

InitDecision ==
    /\ call = NoCall
    /\ ret = None
    /\ rpm_table = <<>>
    /\ mean = None
    /\ std = None
    /\ shape = None
    /\ last_fit = None
    /\ NoPipeline
    /\ NoApp

NextDecision == ActionFromRisk \/ RequiresHumanReview

SpecDecision == InitDecision /\ [][NextDecision]_vars

C4_RequiresHumanReview ==
    call.op = "requires_human_review" =>
        /\ call.label = call.unknown_label => ret = TRUE
        /\ call.label # call.unknown_label =>
               (ret = TRUE <=> call.confidence < call.threshold)
        /\ (call.label # call.unknown_label
            /\ call.confidence = call.threshold) => ret = FALSE

\* A known label whose confidence equals the threshold needs no review.
C4_Witness ==
    /\ call.op = "requires_human_review"
    /\ call.label # call.unknown_label
    /\ call.confidence = call.threshold
    /\ call.confidence > 0
    /\ ret = FALSE

(***************************************************************************)
(* models/mean_diff.py                                                     *)
(***************************************************************************)
\* np.asarray(image, dtype=float32): an array of shape (h, w, c) of pixel
\* values, each held here in whole units.
PixelVals == {0, 1}
Shapes == {<<1, 1, 2>>, <<1, 2, 1>>}

Idx3(s) == (1..s[1]) \X (1..s[2]) \X (1..s[3])
Idx2(s) == (1..s[1]) \X (1..s[2])

ImagesOf(s) == [shape : {s}, px : [Idx3(s) -> PixelVals]]
Images == UNION {ImagesOf(s) : s \in Shapes}

TrainLists == UNION {[1..n -> Images] : n \in 0..MaxTrain}

\* MeanDiffModel.eps = 1e-6, in units of 1/Scale
Eps == 1
\* One unit of a heatmap value is 1/HeatScale.
HeatScale == 100

RECURSIVE SumTo(_, _)
SumTo(f, n) == IF n = 0 THEN 0 ELSE f[n] + SumTo(f, n - 1)

RECURSIVE ISqrtIn(_, _, _)
ISqrtIn(v, lo, hi) ==
    IF lo >= hi THEN lo
    ELSE LET mid == (lo + hi + 1) \div 2
         IN  IF mid * mid <= v THEN ISqrtIn(v, mid, hi)
             ELSE ISqrtIn(v, lo, mid - 1)

\* floor(sqrt(v)) for 0 <= v < 2^31
ISqrt(v) == ISqrtIn(v, 0, 46340)

Raise(kind) == [raised |-> kind]

\* stack.mean(axis=0) at one element, of n images
MeanAt(images, idx) ==
    LET n == Len(images)
    IN  (SumTo([i \in 1..n |-> images[i].px[idx]], n) * Scale) \div n

\* stack.std(axis=0) at one element: sqrt(n*sum(x^2) - sum(x)^2) / n
StdAt(images, idx) ==
    LET n == Len(images)
        sum == SumTo([i \in 1..n |-> images[i].px[idx]], n)
        sumsq == SumTo([i \in 1..n |-> images[i].px[idx] * images[i].px[idx]], n)
    IN  (ISqrt((n * sumsq - sum * sum) * Scale) * SqrtScale) \div n

\* stack.mean(axis=0) and stack.std(axis=0) of images of one shape
MeanOf(images) == [idx \in Idx3(images[1].shape) |-> MeanAt(images, idx)]
StdOf(images) == [idx \in Idx3(images[1].shape) |-> StdAt(images, idx)]

fit_raises_first_shape(images) ==
    IF images = <<>> THEN "ValueError" ELSE "none"

\* MeanDiffModel.fit: what it raises before it assigns any field
fit_raises(images) ==
    IF images = <<>> THEN "ValueError"
    ELSE IF Cardinality({images[i].shape : i \in DOMAIN images}) # 1
         THEN "ValueError"
         ELSE "none"

\* np.abs(arr - mean) / (std + eps) at one element, in units of 1/HeatScale
ZAt(m, sd, image, idx) ==
    LET d == image.px[idx] * Scale - m[idx]
    IN  ((IF d >= 0 THEN d ELSE 0 - d) * HeatScale) \div (sd[idx] + Eps)

\* z.mean(axis=2)
HeatmapOf(m, sd, image) ==
    LET c == image.shape[3]
    IN  [ij \in Idx2(image.shape) |->
            SumTo([k \in 1..c |-> ZAt(m, sd, image, <<ij[1], ij[2], k>>)], c)
                \div c]

\* np.max(heatmap)
MaxOf(hm) == CHOOSE v \in {hm[ij] : ij \in DOMAIN hm} : \A ij \in DOMAIN hm : hm[ij] <= v
\* np.min(heatmap)
MinOf(hm) == CHOOSE v \in {hm[ij] : ij \in DOMAIN hm} : \A ij \in DOMAIN hm : v <= hm[ij]

infer_resizing(m, sd, sh, image) ==
    IF m = None \/ sd = None THEN Raise("RuntimeError")
    ELSE IF image.shape # Val(sh)
         THEN [raised |-> "none", score |-> 0,
               heatmap |-> [ij \in Idx2(image.shape) |-> 0]]
         ELSE LET heatmap == HeatmapOf(Val(m), Val(sd), image)
              IN  [raised |-> "none", score |-> MaxOf(heatmap),
                   heatmap |-> heatmap]

infer_min_score(m, sd, sh, image) ==
    IF m = None \/ sd = None THEN Raise("RuntimeError")
    ELSE IF image.shape # Val(sh) THEN Raise("ValueError")
         ELSE LET heatmap == HeatmapOf(Val(m), Val(sd), image)
              IN  [raised |-> "none", score |-> MinOf(heatmap),
                   heatmap |-> heatmap]

\* MeanDiffModel.infer on the fields m, sd, sh: what it raises, or the
\* (score, heatmap) it returns
infer(m, sd, sh, image) ==
    IF m = None \/ sd = None THEN Raise("RuntimeError")
    ELSE IF image.shape # Val(sh) THEN Raise("ValueError")
         ELSE LET heatmap == HeatmapOf(Val(m), Val(sd), image)
              IN  [raised |-> "none", score |-> MaxOf(heatmap),
                   heatmap |-> heatmap]

\* MeanDiffModel.fit: the fields are assigned after every check has passed.
\* (Under fit_raises the images share a shape; the selection of the images of
\* the first shape is then all of them.)
Fit ==
    \E images \in TrainLists :
        /\ call' = [op |-> "fit",
                    shapes |-> [i \in DOMAIN images |-> images[i].shape],
                    fitted |-> (mean # None)]
        /\ ret' = Raise(fit_raises(images))
        /\ IF fit_raises(images) = "none"
           THEN LET same == SelectSeq(images,
                                LAMBDA im : im.shape = images[1].shape)
                IN  /\ mean' = Some(MeanOf(same))
                    /\ std' = Some(StdOf(same))
                    /\ shape' = Some(images[1].shape)
                    /\ last_fit' = Some(images)
           ELSE UNCHANGED <<mean, std, shape, last_fit>>
        /\ UNCHANGED <<rpm_table, pipe, app>>

Infer ==
    \E image \in Images :
        /\ call' = [op |-> "infer", image |-> image, fitted |-> (mean # None)]
        /\ ret' = infer(mean, std, shape, image)
        /\ UNCHANGED <<rpm_table, mean, std, shape, last_fit, pipe, app>>

InitModel ==
    /\ call = NoCall
    /\ ret = None
    /\ rpm_table = <<>>
    /\ mean = None
    /\ std = None
    /\ shape = None
    /\ last_fit = None
    /\ NoPipeline
    /\ NoApp

NextModel == Fit \/ Infer

SpecModel == InitModel /\ [][NextModel]_vars

\* C8: fit of no image fails, fit of images of two or more shapes fails, infer
\* fails while no fit has returned, and infer of an image whose shape is not
\* the fitted one fails; a failing call returns no result.
C8_UsageErrors ==
    /\ (call.op = "fit" /\ call.shapes = <<>>) => ret = Raise("ValueError")
    /\ (call.op = "fit"
        /\ \E i, j \in DOMAIN call.shapes : call.shapes[i] # call.shapes[j]) =>
           ret = Raise("ValueError")
    /\ (call.op = "infer" /\ last_fit = None) => ret = Raise("RuntimeError")
    /\ (call.op = "infer" /\ last_fit # None
        /\ call.image.shape # Val(last_fit)[1].shape) =>
           ret = Raise("ValueError")

\* An infer on a fitted model of an image of another shape, which failed.
C8_Witness ==
    /\ call.op = "infer"
    /\ last_fit # None
    /\ Len(Val(last_fit)) = 2
    /\ call.image.shape # Val(last_fit)[1].shape
    /\ ret = Raise("ValueError")

\* C9: on a fitted model, infer of an image of the fitted shape returns a
\* heatmap of the image's height and width whose values are all >= 0, and a
\* score equal to the largest value of that heatmap.
C9_InferResult ==
    (call.op = "infer" /\ last_fit # None
     /\ call.image.shape = Val(last_fit)[1].shape) =>
        /\ ret.raised = "none"
        /\ DOMAIN ret.heatmap =
               (1..call.image.shape[1]) \X (1..call.image.shape[2])
        /\ \A ij \in DOMAIN ret.heatmap : ret.heatmap[ij] >= 0
        /\ \E ij \in DOMAIN ret.heatmap : ret.heatmap[ij] = ret.score
        /\ \A ij \in DOMAIN ret.heatmap : ret.heatmap[ij] <= ret.score

\* An infer that returned a heatmap of two pixels with different values, one
\* of them 0, on a model fitted on two images.
C9_Witness ==
    /\ call.op = "infer"
    /\ ret.raised = "none"
    /\ Len(Val(last_fit)) = 2
    /\ call.image.shape = <<1, 2, 1>>
    /\ ret.heatmap[<<1, 1>>] = 0
    /\ ret.heatmap[<<1, 2>>] > 0
    /\ ret.score = ret.heatmap[<<1, 2>>]

(***************************************************************************)
(* postproc/heatmap.py                                                     *)
(***************************************************************************)
\* One unit of a normalised heatmap value is 1/NormScale = 10^-NormDigits.
NormDigits == 3

RECURSIVE Pow10(_)
Pow10(n) == IF n = 0 THEN 1 ELSE 10 * Pow10(n - 1)

NormScale == Pow10(NormDigits)

\* floor(r * 10^n / c) for 0 <= r < c, one decimal digit at a time
RECURSIVE FracDigits(_, _, _)
FracDigits(r, c, n) ==
    IF n = 0 THEN 0
    ELSE ((r * 10) \div c) * Pow10(n - 1) + FracDigits((r * 10) % c, c, n - 1)

\* a / c in units of 1/NormScale, for a >= 0 and c > 0
Ratio(a, c) == (a \div c) * NormScale + FracDigits(a % c, c, NormDigits)

\* Heatmaps given to normalize_heatmap, in units of 1/HeatScale: small
\* values, a negative one and one of the size 1/eps gives.
HeatVals == (0..MaxHeat) \cup {0 - 7, 100 * Scale}
HeatShapes == {<<1, 2>>, <<2, 2>>}
Heatmaps == UNION {[Idx2(s) -> HeatVals] : s \in HeatShapes}
NormMethods == {"minmax", "zscore"}

normalize_heatmap_unshifted(hm, method) ==
    IF method = "minmax"
    THEN LET vmin == MinOf(hm)
             vmax == MaxOf(hm)
         IN  IF vmax - vmin <= 0
             THEN [raised |-> "none", value |-> [ij \in DOMAIN hm |-> 0]]
             ELSE [raised |-> "none",
                   value |-> [ij \in DOMAIN hm |->
                                 IF hm[ij] >= 0 THEN Ratio(hm[ij], vmax - vmin)
                                 ELSE 0 - Ratio(0 - hm[ij], vmax - vmin)]]
    ELSE Raise("ValueError")

\* normalize_heatmap.  Two values that differ differ by a unit or more, so
\* vmax - vmin < 1e-12 is vmax - vmin <= 0.
normalize_heatmap(hm, method) ==
    IF method = "minmax"
    THEN LET vmin == MinOf(hm)
             vmax == MaxOf(hm)
         IN  IF vmax - vmin <= 0
             THEN [raised |-> "none", value |-> [ij \in DOMAIN hm |-> 0]]
             ELSE [raised |-> "none",
                   value |-> [ij \in DOMAIN hm |->
                                 Ratio(hm[ij] - vmin, vmax - vmin)]]
    ELSE Raise("ValueError")

NormalizeHeatmap ==
    /\ call = NoCall
    /\ \E hm \in Heatmaps, method \in NormMethods :
        /\ call' = [op |-> "normalize_heatmap", hm |-> hm, method |-> method]
        /\ ret' = normalize_heatmap(hm, method)
        /\ UNCHANGED <<rpm_table, mean, std, shape, last_fit, pipe, app>>

InitHeat ==
    /\ call = NoCall
    /\ ret = None
    /\ rpm_table = <<>>
    /\ mean = None
    /\ std = None
    /\ shape = None
    /\ last_fit = None
    /\ NoPipeline
    /\ NoApp

NextHeat == NormalizeHeatmap

SpecHeat == InitHeat /\ [][NextHeat]_vars

\* C10: normalize_heatmap(hm, "minmax") returns an array of the shape of hm
\* whose values all lie in [0, 1], all of them 0 when max(hm) - min(hm) is
\* below 1e-12; any other method fails.
C10_Normalize ==
    call.op = "normalize_heatmap" =>
        /\ call.method = "minmax" =>
               /\ ret.raised = "none"
               /\ DOMAIN ret.value = DOMAIN call.hm
               /\ \A ij \in DOMAIN ret.value :
                      0 <= ret.value[ij] /\ ret.value[ij] <= NormScale
               /\ (\A ij, kl \in DOMAIN call.hm : call.hm[ij] = call.hm[kl]) =>
                      \A ij \in DOMAIN ret.value : ret.value[ij] = 0
        /\ call.method # "minmax" => ret = Raise("ValueError")

\* A heatmap with a negative minimum whose normalised values are 0, 1 and
\* values strictly between.
C10_Witness ==
    /\ call.op = "normalize_heatmap"
    /\ call.method = "minmax"
    /\ DOMAIN call.hm = (1..2) \X (1..2)
    /\ \E ij \in DOMAIN call.hm : call.hm[ij] < 0
    /\ \E ij \in DOMAIN ret.value : ret.value[ij] = 0
    /\ \E ij \in DOMAIN ret.value : ret.value[ij] = NormScale
    /\ \E ij \in DOMAIN ret.value :
           0 < ret.value[ij] /\ ret.value[ij] < NormScale

(***************************************************************************)
(* vlm/semantics.py                                                        *)
(***************************************************************************)
\* Labels, in the order sorted() gives (upper case before lower case).
SortedLabels == <<"Stain", "crack", "dent", "small_scratch">>
LabelPool == {SortedLabels[i] : i \in DOMAIN SortedLabels}
LabelSets == SUBSET LabelPool
\* The label sets given with a model response, which is read only for the
\* membership of the label the response names
ParseLabelSets == SUBSET {"crack", "dent"}
UnknownLabels == {"unknown"}

\* x.lower()
Lower(x) == IF x = "Stain" THEN "stain" ELSE x

\* kw in s, for the keywords of the fallback and the lowered labels
Contains(s, kw) ==
    \/ s = kw
    \/ s = "small_scratch" /\ kw \in {"small", "scratch"}

\* A model response is a sequence of tokens: the characters "{" and "}", any
\* other character, and a "key": value member of a JSON object.  A JSON value
\* is a string, a number (in units of 1/Scale), null or a list of strings.
JStr(x) == [ty |-> "str", s |-> x]
JNum(n) == [ty |-> "num", n |-> n]
JNull == [ty |-> "null"]
JList(n) == [ty |-> "list", len |-> n]

Tok(c) == [t |-> c]
Member(k, v) == [t |-> "member", key |-> k, val |-> v]

LabelVals == {JStr("crack"), JNum(7 * Scale)}
EvidenceVals == {JList(4), JNull}
ConfidenceVals == {JNum(Scale \div 2), JNum(3 * (Scale \div 2)),
                   JNum(0 - (Scale \div 2)), JStr("high")}

Tokens ==
    {Tok("{"), Tok("}"), Tok("x")}
        \cup {Member("defect_label", v) : v \in LabelVals}
        \cup {Member("evidence", v) : v \in EvidenceVals}
        \cup {Member("confidence", v) : v \in ConfidenceVals}

Texts == UNION {[1..n -> Tokens] : n \in 0..MaxText}

\* text.find(c) and text.rfind(c), 1-based; 0 for Python's -1
Find(text, c) ==
    LET at == {i \in DOMAIN text : text[i].t = c}
    IN  IF at = {} THEN 0 ELSE CHOOSE i \in at : \A j \in at : i <= j
RFind(text, c) ==
    LET at == {i \in DOMAIN text : text[i].t = c}
    IN  IF at = {} THEN 0 ELSE CHOOSE i \in at : \A j \in at : j <= i

\* json.loads(text[start : end + 1]) raises unless the slice is an object:
\* "{", members, "}"
IsObject(text, start, end) ==
    \A i \in (start + 1)..(end - 1) : text[i].t = "member"

\* payload.get(key, default): the last member with the key wins
PayloadGet(text, start, end, key, default) ==
    LET at == {i \in (start + 1)..(end - 1) : text[i].key = key}
    IN  IF at = {} THEN default
        ELSE text[CHOOSE i \in at : \A j \in at : j <= i].val

\* str(x) of a JSON value that is a string, a number or null
PyStr(v) ==
    IF v.ty = "str" THEN v.s
    ELSE IF v.ty = "num" THEN (IF v.n = 7 * Scale THEN "7" ELSE "<number>")
    ELSE "None"

\* float(x) raises on null and on a string that is no number
FloatRaises(v) == v.ty # "num"

\* text[:200]
TextCut == 200
TextHead(text) == SubSeq(text, 1, Min(Len(text), TextCut))

Note(n) == [kind |-> "note", note |-> n]
EvidenceItem(i) == [kind |-> "model", item |-> i]
RawText(text) == [kind |-> "text", text |-> text]

VLMResult(label, evidence, confidence) ==
    [raised |-> "none", defect_label |-> label, evidence |-> evidence,
     confidence |-> confidence]

\* the try block of _parse_response: whether it raises, and the label,
\* evidence and confidence it leaves
ParseRaises(text, start, end) ==
    /\ start # 0 /\ end # 0 /\ end > start
    /\ \/ ~IsObject(text, start, end)
       \/ PayloadGet(text, start, end, "evidence", JList(0)).ty # "list"
       \/ FloatRaises(PayloadGet(text, start, end, "confidence", JNum(0)))

ParsedLabel(text, start, end, unknown_label) ==
    IF start # 0 /\ end # 0 /\ end > start
    THEN PyStr(PayloadGet(text, start, end, "defect_label", JStr(unknown_label)))
    ELSE unknown_label

ParsedEvidence(text, start, end) ==
    IF start # 0 /\ end # 0 /\ end > start
    THEN LET n == PayloadGet(text, start, end, "evidence", JList(0)).len
         IN  [i \in 1..Min(n, 3) |-> EvidenceItem(i)]
    ELSE <<>>

ParsedConfidence(text, start, end) ==
    IF start # 0 /\ end # 0 /\ end > start
    THEN PayloadGet(text, start, end, "confidence", JNum(0)).n
    ELSE 0

parse_response_unvalidated(text, unknown_label, label_set) ==
    LET start == Find(text, "{")
        end == RFind(text, "}")
    IN  IF ParseRaises(text, start, end)
        THEN VLMResult(unknown_label, <<RawText(TextHead(text))>>, 0)
        ELSE VLMResult(ParsedLabel(text, start, end, unknown_label),
                       ParsedEvidence(text, start, end),
                       Max(0, Min(Scale, ParsedConfidence(text, start, end))))

\* _parse_response
parse_response(text, unknown_label, label_set) ==
    LET start == Find(text, "{")
        end == RFind(text, "}")
    IN  IF ParseRaises(text, start, end)
        THEN VLMResult(unknown_label, <<RawText(TextHead(text))>>, 0)
        ELSE IF ParsedLabel(text, start, end, unknown_label)
                    \notin (label_set \cup {unknown_label})
             THEN VLMResult(unknown_label, <<Note("outside fixed label set")>>, 0)
             ELSE VLMResult(ParsedLabel(text, start, end, unknown_label),
                            ParsedEvidence(text, start, end),
                            Max(0, Min(Scale, ParsedConfidence(text, start, end))))

\* Arguments of the fallback, floats in units of 1/Scale
ScoreArgs == {0, 149999, 150000, 600000, 1500000}
RatioArgs == {0, 19999, 20000, 49999, 50000, 300000}
BoxArgs == 0..MaxBoxes

FirstWith_first(label_set, kw1, kw2) ==
    SelectSeq(SortedLabels, LAMBDA x : x \in label_set)[1]

\* next((x for x in sorted_labels if kw1 in x.lower() or kw2 in x.lower()),
\*      sorted_labels[0])
FirstWith(label_set, kw1, kw2) ==
    LET sorted == SelectSeq(SortedLabels, LAMBDA x : x \in label_set)
        hits == SelectSeq(sorted, LAMBDA x : Contains(Lower(x), kw1)
                                             \/ Contains(Lower(x), kw2))
    IN  IF hits # <<>> THEN hits[1] ELSE sorted[1]

FallbackConfidence(anomaly_score, mask_ratio) ==
    Max(300000,
        Min(850000,
            450000 + (35 * Min(Scale, anomaly_score)) \div 100
                   + (15 * Min(Scale, mask_ratio * 5)) \div 100))

\* _heuristic_vlm_fallback
heuristic_vlm_fallback(label_set, unknown_label, anomaly_score, bbox_count, mask_ratio) ==
    IF label_set = {}
    THEN VLMResult(unknown_label, <<Note("No configured label set.")>>, 0)
    ELSE IF anomaly_score < 150000 /\ bbox_count = 0
    THEN VLMResult(unknown_label,
                   <<Note("No clear anomaly regions detected.")>>, 250000)
    ELSE VLMResult(
           IF bbox_count >= 3 /\ mask_ratio >= 50000
           THEN FirstWith(label_set, "contam", "stain")
           ELSE IF bbox_count <= 1 /\ mask_ratio < 20000
                THEN FirstWith(label_set, "small", "scratch")
                ELSE FirstWith(label_set, "large", "crack"),
           <<Note("Anomaly score, bbox_count, mask_ratio."),
             Note("Label selected from fixed label set.")>>,
           FallbackConfidence(anomaly_score, mask_ratio))

\* infer_defect_label.  image is "none" or "present"; runtime is "missing"
\* when torch or transformers failed to import; generated is the text the
\* model decodes to, or None when loading or running the model raises.
infer_defect_label(label_set, unknown_label, image, runtime, generated, anomaly_score, bbox_count, mask_ratio) ==
    IF image = "none"
    THEN heuristic_vlm_fallback(label_set, unknown_label, anomaly_score,
                                bbox_count, mask_ratio)
    ELSE IF runtime = "missing"
    THEN LET fallback == heuristic_vlm_fallback(label_set, unknown_label,
                             anomaly_score, bbox_count, mask_ratio)
         IN  [fallback EXCEPT !.evidence =
                 @ \o <<Note("Full VLM runtime unavailable."), Note("roi_note")>>]
    ELSE IF generated = None THEN Raise("Exception")
    ELSE parse_response(Val(generated), unknown_label, label_set)

ParseResponse ==
    /\ call = NoCall
    /\ \E text \in Texts, unknown_label \in UnknownLabels,
          label_set \in ParseLabelSets :
        /\ call' = [op |-> "parse_response", text |-> text,
                    unknown_label |-> unknown_label, label_set |-> label_set]
        /\ ret' = parse_response(text, unknown_label, label_set)
        /\ UNCHANGED <<rpm_table, mean, std, shape, last_fit, pipe, app>>

HeuristicFallback ==
    /\ call = NoCall
    /\ \E label_set \in LabelSets, unknown_label \in UnknownLabels,
          anomaly_score \in ScoreArgs, bbox_count \in BoxArgs,
          mask_ratio \in RatioArgs :
        /\ call' = [op |-> "heuristic_vlm_fallback", label_set |-> label_set,
                    unknown_label |-> unknown_label,
                    anomaly_score |-> anomaly_score, bbox_count |-> bbox_count,
                    mask_ratio |-> mask_ratio]
        /\ ret' = heuristic_vlm_fallback(label_set, unknown_label,
                                         anomaly_score, bbox_count, mask_ratio)
        /\ UNCHANGED <<rpm_table, mean, std, shape, last_fit, pipe, app>>

\* infer_defect_label on the paths that end in the fallback
InferDefectLabelFallback ==
    /\ call = NoCall
    /\ \E label_set \in LabelSets, unknown_label \in UnknownLabels,
          anomaly_score \in ScoreArgs, bbox_count \in BoxArgs,
          mask_ratio \in RatioArgs,
          path \in {<<"none", "loaded">>, <<"none", "missing">>,
                    <<"present", "missing">>} :
        /\ call' = [op |-> "infer_defect_label", label_set |-> label_set,
                    unknown_label |-> unknown_label, image |-> path[1],
                    runtime |-> path[2], generated |-> None,
                    anomaly_score |-> anomaly_score, bbox_count |-> bbox_count,
                    mask_ratio |-> mask_ratio]
        /\ ret' = infer_defect_label(label_set, unknown_label, path[1], path[2],
                                     None, anomaly_score, bbox_count, mask_ratio)
        /\ UNCHANGED <<rpm_table, mean, std, shape, last_fit, pipe, app>>

\* infer_defect_label on the path that runs the model, which reads none of
\* anomaly_score, bbox_count and mask_ratio: they are left at their defaults
InferDefectLabelModel ==
    /\ call = NoCall
    /\ \E label_set \in ParseLabelSets, unknown_label \in UnknownLabels,
          generated \in {None} \cup {Some(text) : text \in Texts} :
        /\ call' = [op |-> "infer_defect_label", label_set |-> label_set,
                    unknown_label |-> unknown_label, image |-> "present",
                    runtime |-> "loaded", generated |-> generated,
                    anomaly_score |-> 0, bbox_count |-> 0, mask_ratio |-> 0]
        /\ ret' = infer_defect_label(label_set, unknown_label, "present",
                                     "loaded", generated, 0, 0, 0)
        /\ UNCHANGED <<rpm_table, mean, std, shape, last_fit, pipe, app>>

InitLabel ==
    /\ call = NoCall
    /\ ret = None
    /\ rpm_table = <<>>
    /\ mean = None
    /\ std = None
    /\ shape = None
    /\ last_fit = None
    /\ NoPipeline
    /\ NoApp

NextLabel ==
    \/ ParseResponse
    \/ HeuristicFallback
    \/ InferDefectLabelFallback
    \/ InferDefectLabelModel

SpecLabel == InitLabel /\ [][NextLabel]_vars

LabelerOps == {"parse_response", "heuristic_vlm_fallback", "infer_defect_label"}

\* C1: the defect_label returned by _parse_response, _heuristic_vlm_fallback
\* and infer_defect_label is a member of label_set or is unknown_label, for
\* every input.
C1_LabelInVocabulary ==
    (call.op \in LabelerOps /\ ret.raised = "none") =>
        ret.defect_label \in call.label_set \cup {call.unknown_label}

\* infer_defect_label ran the model, whose response was a well-formed object
\* naming a label outside the label set, and returned the unknown label.
C1_Witness ==
    /\ call.op = "infer_defect_label"
    /\ call.generated # None
    /\ LET text == Val(call.generated)
       IN  /\ Len(text) = 4
           /\ text[1] = Tok("{")
           /\ text[2] = Member("defect_label", JStr("crack"))
           /\ text[3] = Member("confidence", JNum(Scale \div 2))
           /\ text[4] = Tok("}")
    /\ "crack" \notin call.label_set
    /\ call.label_set # {}
    /\ ret.raised = "none"
    /\ ret.defect_label = call.unknown_label

(***************************************************************************)
(* postproc/mask.py, postproc/bboxes.py, uncertainty/confidence.py         *)
(***************************************************************************)
\* The k-th smallest value (k from 0) of an array
KthSmallest(hm, k) ==
    CHOOSE v \in {hm[ij] : ij \in DOMAIN hm} :
        /\ Cardinality({ij \in DOMAIN hm : hm[ij] < v}) <= k
        /\ Cardinality({ij \in DOMAIN hm : hm[ij] <= v}) > k

\* A percentile q is held in units of 1/PctScale percent, so that the rank
\* q/100 * (n - 1) is q * (n - 1) / (100 * PctScale).
PctScale == 10

threshold_heatmap_above(hm, method, value, percentile) ==
    IF method = "fixed"
    THEN [raised |-> "none",
          mask |-> [ij \in DOMAIN hm |-> IF hm[ij] > value THEN 1 ELSE 0]]
    ELSE IF method = "percentile"
    THEN IF percentile < 0 \/ percentile > 100 * PctScale
         THEN Raise("ValueError")
         ELSE LET n == Cardinality(DOMAIN hm)
                  den == 100 * PctScale
                  rank == percentile * (n - 1)
                  lo == KthSmallest(hm, rank \div den)
                  hi == KthSmallest(hm, Min(n - 1, (rank \div den) + 1))
                  thresh == lo * den + (hi - lo) * (rank % den)
              IN  [raised |-> "none",
                   mask |-> [ij \in DOMAIN hm |->
                                IF hm[ij] * den > thresh THEN 1 ELSE 0]]
    ELSE Raise("ValueError")

\* threshold_heatmap: the mask of hm >= thresh.  np.percentile interpolates
\* linearly between the two values around the rank; the comparison is made on
\* both sides times 100 * PctScale, which keeps it exact.
threshold_heatmap(hm, method, value, percentile) ==
    IF method = "fixed"
    THEN [raised |-> "none",
          mask |-> [ij \in DOMAIN hm |-> IF hm[ij] >= value THEN 1 ELSE 0]]
    ELSE IF method = "percentile"
    THEN IF percentile < 0 \/ percentile > 100 * PctScale
         THEN Raise("ValueError")
         ELSE LET n == Cardinality(DOMAIN hm)
                  den == 100 * PctScale
                  rank == percentile * (n - 1)
                  lo == KthSmallest(hm, rank \div den)
                  hi == KthSmallest(hm, Min(n - 1, (rank \div den) + 1))
                  thresh == lo * den + (hi - lo) * (rank % den)
              IN  [raised |-> "none",
                   mask |-> [ij \in DOMAIN hm |->
                                IF hm[ij] * den >= thresh THEN 1 ELSE 0]]
    ELSE Raise("ValueError")

\* Neighbours by a side only (connectivity 1).
Touch_sides(p, q) ==
    \/ (p[1] = q[1] /\ p[2] - q[2] \in {0 - 1, 1})
    \/ (p[2] = q[2] /\ p[1] - q[1] \in {0 - 1, 1})

\* skimage.measure.label(mask > 0): pixels that touch by a side or a corner
\* are in one component.
Touch(p, q) ==
    /\ p # q
    /\ p[1] - q[1] \in {0 - 1, 0, 1}
    /\ p[2] - q[2] \in {0 - 1, 0, 1}

RECURSIVE Grow(_, _)
Grow(part, fg) ==
    LET more == part \cup {q \in fg : \E p \in part : Touch(p, q)}
    IN  IF more = part THEN part ELSE Grow(more, fg)

Foreground(mask) == {ij \in DOMAIN mask : mask[ij] > 0}

Regions(mask) == {Grow({p}, Foreground(mask)) : p \in Foreground(mask)}

\* The place of a pixel in the row-by-row scan that numbers the components
ScanPlace(p) == p[1] * 1000 + p[2]
FirstPlace(region) ==
    CHOOSE k \in {ScanPlace(p) : p \in region} :
        \A p \in region : k <= ScanPlace(p)

BBox_closed(region) ==
    LET rows == {p[1] : p \in region}
        cols == {p[2] : p \in region}
        lowest(S) == CHOOSE x \in S : \A y \in S : x <= y
        highest(S) == CHOOSE x \in S : \A y \in S : y <= x
    IN  <<lowest(cols) - 1, lowest(rows) - 1, highest(cols) - 1,
          highest(rows) - 1>>

\* region.bbox as [minc, minr, maxc, maxr], 0-based with maxc and maxr one
\* past the last column and row
BBox(region) ==
    LET rows == {p[1] : p \in region}
        cols == {p[2] : p \in region}
        lowest(S) == CHOOSE x \in S : \A y \in S : x <= y
        highest(S) == CHOOSE x \in S : \A y \in S : y <= x
    IN  <<lowest(cols) - 1, lowest(rows) - 1, highest(cols), highest(rows)>>

RECURSIVE BoxesOf(_, _)
BoxesOf(regions, min_area) ==
    IF regions = {} THEN <<>>
    ELSE LET first == CHOOSE r \in regions :
                          \A o \in regions : FirstPlace(r) <= FirstPlace(o)
             rest == BoxesOf(regions \ {first}, min_area)
         IN  IF Cardinality(first) < min_area THEN rest
             ELSE <<BBox(first)>> \o rest

mask_to_bboxes_unfiltered(mask, min_area, skimage) ==
    IF skimage = "missing" THEN Raise("ImportError")
    ELSE [raised |-> "none", bboxes |-> BoxesOf(Regions(mask), 0)]

\* mask_to_bboxes; skimage is "missing" when its import failed
mask_to_bboxes(mask, min_area, skimage) ==
    IF skimage = "missing" THEN Raise("ImportError")
    ELSE [raised |-> "none", bboxes |-> BoxesOf(Regions(mask), min_area)]

combine_confidence_max(anomaly_conf, vlm_conf, method) ==
    IF method = "min"
    THEN [raised |-> "none", value |-> Max(anomaly_conf, vlm_conf)]
    ELSE IF method = "mean"
    THEN [raised |-> "none", value |-> (anomaly_conf + vlm_conf) \div 2]
    ELSE Raise("ValueError")

\* combine_confidence
combine_confidence(anomaly_conf, vlm_conf, method) ==
    IF method = "min"
    THEN [raised |-> "none", value |-> Min(anomaly_conf, vlm_conf)]
    ELSE IF method = "mean"
    THEN [raised |-> "none", value |-> (anomaly_conf + vlm_conf) \div 2]
    ELSE Raise("ValueError")

(***************************************************************************)
(* pipeline.py                                                             *)
(***************************************************************************)
\* load_image_rgb gives three channels.  A grey image of height 3 and width
\* 3 whose pixels in `lit` are 1 and whose other pixels are 0:
RgbShape == <<3, 3, 3>>
Rgb(lit) ==
    [shape |-> RgbShape,
     px |-> [idx \in Idx3(RgbShape) |->
                IF <<idx[1], idx[2]>> \in lit THEN 1 ELSE 0]]

Flat == Rgb({})
Spot == Rgb({<<1, 1>>})
Square == Rgb({<<1, 1>>, <<1, 2>>, <<2, 1>>, <<2, 2>>})
\* An image of another size
Odd == [shape |-> <<1, 2, 3>>, px |-> [idx \in Idx3(<<1, 2, 3>>) |-> 0]]

\* What is at a sample's image_path: an image, or a file Image.open cannot
\* read (None)
TestFiles == {Some(Flat), Some(Spot), Some(Square), Some(Odd), None}

\* The train/good images, already loaded
TrainSets == {<<>>, <<Flat, Flat>>, <<Flat, Spot>>, <<Flat, Odd>>}

\* iter_mvtec_samples yields the label folders in sorted order and the files
\* of each in sorted order: the i-th test sample is crack/000.png for i = 1
\* and good/<i-2>.png after it.
SampleAt(i, content) ==
    [label |-> IF i = 1 THEN "crack" ELSE "good",
     file |-> IF i = 1 THEN 0 ELSE i - 2,
     content |-> content]

TestSets ==
    UNION {{[i \in 1..n |-> SampleAt(i, c[i])] : c \in [1..n -> TestFiles]} :
              n \in 0..MaxSamples}

Datasets == [train : TrainSets, test : TestSets]

\* cfg["risk"]["rpm"]
PipelineRpm ==
    <<[severity |-> Some(1), occurrence |-> Some(1), detection |-> Some(1),
       risk_score |-> Some(5), risk_class |-> Some("HIGH")],
      [severity |-> Some(2), occurrence |-> Some(1), detection |-> Some(1),
       risk_score |-> Some(5), risk_class |-> None]>>

\* cfg["risk"].get("severity"), .get("occurrence"), .get("detection"): all
\* absent, matching the first row, matching the row without a class, matching
\* no row
RiskInputs ==
    {<<None, None, None>>, <<Some(1), Some(1), Some(1)>>,
     <<Some(2), Some(1), Some(1)>>, <<Some(2), Some(2), Some(1)>>}

\* cfg["risk"]["risk_to_action"]
PipelineMappings ==
    {[k \in PolicyKeys |-> IF k = "LOW" THEN "PASS"
                           ELSE IF k = "HIGH" THEN "HOLD" ELSE "MANUAL_REVIEW"],
     [k \in {"LOW", "REVIEW_REQUIRED"} |->
         IF k = "LOW" THEN "PASS" ELSE "MANUAL_REVIEW"],
     [k \in {"LOW", "HIGH"} |-> IF k = "LOW" THEN "PASS" ELSE "HOLD"]}

BaseCfg ==
    [heatmap_normalize |-> "minmax",
     threshold_method |-> "fixed",
     threshold_value |-> NormScale \div 2,
     threshold_percentile |-> 995,
     min_area |-> 1,
     image_threshold |-> HeatScale \div 2,
     label_set |-> {"crack", "dent"},
     unknown_label |-> "unknown",
     risk |-> <<Some(1), Some(1), Some(1)>>,
     risk_to_action |-> CHOOSE m \in PipelineMappings : DOMAIN m = PolicyKeys,
     combine_method |-> "min",
     review_threshold |-> Scale \div 2]

\* The configurations: each group of keys is read by one step of the loop
\* body, and is varied with the other groups at their base values.
PostprocCfgs ==
    {[BaseCfg EXCEPT !.heatmap_normalize = n, !.threshold_method = t,
                     !.min_area = a, !.image_threshold = i] :
        n \in NormMethods, t \in {"fixed", "percentile", "otsu"},
        a \in {1, 2}, i \in {0, HeatScale \div 2, 2 * HeatScale}}
RiskCfgs ==
    {[BaseCfg EXCEPT !.risk = r, !.risk_to_action = m] :
        r \in RiskInputs, m \in PipelineMappings}
UncertaintyCfgs ==
    {[BaseCfg EXCEPT !.label_set = l, !.combine_method = c] :
        l \in {{}, {"crack", "dent"}}, c \in {"min", "mean", "max"}}
Cfgs == PostprocCfgs \cup RiskCfgs \cup UncertaintyCfgs

\* Which optional imports succeed: the labeler's model runtime, skimage
Envs ==
    {[runtime |-> "missing", skimage |-> "loaded"],
     [runtime |-> "loaded", skimage |-> "loaded"],
     [runtime |-> "missing", skimage |-> "missing"]}

\* The configurations and imports of a run: the post-processing and risk
\* keys are varied with the labeler on its fallback, the label and confidence
\* keys with every combination of imports.
Setups ==
    ((PostprocCfgs \cup RiskCfgs)
        \X {[runtime |-> "missing", skimage |-> "loaded"]})
    \cup (UncertaintyCfgs \X Envs)

\* What the labeler's model does when it is run: it fails (None) or it
\* generates a text
Responses ==
    {None,
     Some(<<Tok("{"), Member("defect_label", JStr("crack")),
            Member("confidence", JNum(Scale \div 2)), Tok("}")>>),
     Some(<<Tok("{"), Member("defect_label", JStr("unknown")),
            Member("confidence", JNum(Scale)), Tok("}")>>),
     Some(<<Tok("x")>>)}

\* (heatmap_n * 255.0).clip(0, 255) and mask * 255, as uint8
HeatmapPng(heatmap_n) ==
    [ij \in DOMAIN heatmap_n |->
        Max(0, Min(255, (heatmap_n[ij] * 255) \div NormScale))]
MaskPng(mask) == [ij \in DOMAIN mask |-> mask[ij] * 255]

HeatmapPath(base) == <<"heatmaps", base, "_hm.png">>
MaskPath(base) == <<"masks", base, "_mask.png">>

\* float(min(1.0, score / image_threshold)) if image_threshold > 0 else 0.0,
\* in units of 1/Scale; score is in units of 1/HeatScale and is >= 0
AnomalyConf(score, image_threshold) ==
    IF image_threshold > 0
    THEN IF score >= image_threshold THEN Scale
         ELSE FracDigits(score, image_threshold, 6)
    ELSE 0

image_decision_above(score, image_threshold) ==
    IF score > image_threshold THEN "anomalous" ELSE "normal"

\* "anomalous" if score >= cfg["postproc"]["image_threshold"] else "normal"
image_decision(score, image_threshold) ==
    IF score >= image_threshold THEN "anomalous" ELSE "normal"

resolve_risk_strict(table, c) ==
    lookup_risk_strict(table, c.risk[1], c.risk[2], c.risk[3])

\* lookup_risk(rpm_table, severity=cfg["risk"].get("severity"), ...)
resolve_risk(table, c) == lookup_risk(table, c.risk[1], c.risk[2], c.risk[3])

\* A loop body that raised before it saved the artifacts
Failed(kind) == [raised |-> kind, saved |-> FALSE, calls |-> <<>>]

\* One pass of the loop body of run_pipeline for `sample`, on the model
\* fields m, sd, sh, the table, the configuration c and the imports e;
\* `generated` is what the labeler's model does if it is run.  The result
\* tells what was raised, whether the two artifacts were saved before that
\* the calls it made to the labeler and to the confidence fusion, and the
\* record appended.  The labeler is given the loaded image, and
\* anomaly_score, bbox_count and mask_ratio at their defaults.
process_sample(m, sd, sh, table, c, e, sample, generated) ==
    IF sample.content = None THEN Failed("OSError")
    ELSE
    LET image == Val(sample.content)
        inf == infer(m, sd, sh, image)
    IN
    IF inf.raised # "none" THEN Failed(inf.raised)
    ELSE
    LET norm == normalize_heatmap(inf.heatmap, c.heatmap_normalize)
    IN
    IF norm.raised # "none" THEN Failed(norm.raised)
    ELSE
    LET thr == threshold_heatmap(norm.value, c.threshold_method,
                                 c.threshold_value, c.threshold_percentile)
    IN
    IF thr.raised # "none" THEN Failed(thr.raised)
    ELSE
    LET bb == mask_to_bboxes(thr.mask, c.min_area, e.skimage)
    IN
    IF bb.raised # "none" THEN Failed(bb.raised)
    ELSE
    LET base == sample.file
        png == [saved |-> TRUE,
                heatmap_png |-> HeatmapPng(norm.value),
                mask_png |-> MaskPng(thr.mask)]
        \* anomaly_score, bbox_count and mask_ratio are not passed: the
        \* labeler gets its defaults
        args == [op |-> "infer_defect_label", label_set |-> c.label_set,
                 unknown_label |-> c.unknown_label, image |-> "present",
                 anomaly_score |-> 0, bbox_count |-> 0, mask_ratio |-> 0]
        vlm == infer_defect_label(args.label_set, args.unknown_label,
                                  args.image, e.runtime, generated,
                                  args.anomaly_score, args.bbox_count,
                                  args.mask_ratio)
    IN
    IF vlm.raised # "none"
    THEN [raised |-> vlm.raised, saved |-> TRUE, calls |-> <<args>>,
          heatmap_png |-> png.heatmap_png, mask_png |-> png.mask_png]
    ELSE
    LET risk == resolve_risk(table, c)
        anomaly_conf == AnomalyConf(inf.score, c.image_threshold)
        conf == combine_confidence(anomaly_conf, vlm.confidence,
                                   c.combine_method)
        fusion == [op |-> "combine_confidence", anomaly_conf |-> anomaly_conf,
                   vlm_conf |-> vlm.confidence, method |-> c.combine_method]
    IN
    IF conf.raised # "none"
    THEN [raised |-> conf.raised, saved |-> TRUE, calls |-> <<args, fusion>>,
          heatmap_png |-> png.heatmap_png, mask_png |-> png.mask_png]
    ELSE
    [raised |-> "none", saved |-> TRUE, calls |-> <<args, fusion>>,
     heatmap_png |-> png.heatmap_png, mask_png |-> png.mask_png,
     record |->
        [image_id |-> base,
         category |-> "bottle",
         image_decision |-> image_decision(inf.score, c.image_threshold),
         anomaly_score |-> inf.score,
         anomaly_heatmap_path |-> HeatmapPath(base),
         anomaly_mask_path |-> MaskPath(base),
         bboxes |-> bb.bboxes,
         defect_label |-> vlm.defect_label,
         evidence |-> vlm.evidence,
         risk_score |-> risk[1],
         risk_class |-> risk[2],
         action |-> action_from_risk(risk[2], c.risk_to_action),
         confidence |-> conf.value,
         human_review_required |->
             requires_human_review(conf.value, vlm.defect_label,
                                   c.unknown_label, c.review_threshold)]]

\* run_pipeline up to the loop: the train/good images are loaded and the
\* model is fitted on them; what fit raises leaves run_pipeline.
FitTrain ==
    /\ pc = "start"
    /\ IF fit_raises(dataset.train) = "none"
       THEN /\ mean' = Some(MeanOf(dataset.train))
            /\ std' = Some(StdOf(dataset.train))
            /\ shape' = Some(dataset.train[1].shape)
            /\ last_fit' = Some(dataset.train)
            /\ pos' = 1
            /\ pc' = "loop"
            /\ ret' = ret
       ELSE /\ pc' = "raised"
            /\ ret' = Raise(fit_raises(dataset.train))
            /\ UNCHANGED <<mean, std, shape, last_fit, pos>>
    /\ UNCHANGED <<app, call, rpm_table, cfg, env, dataset, results, files,
                   calls_made>>

\* One pass of the loop body.  Nothing catches what it raises: the exception
\* leaves run_pipeline, which returns nothing.
ProcessSample ==
    /\ pc = "loop"
    /\ pos <= Len(dataset.test)
    /\ \E generated \in IF env.runtime = "loaded" THEN Responses ELSE {None} :
        \E out \in {process_sample(mean, std, shape, rpm_table, cfg, env,
                                   dataset.test[pos], generated)} :
        LET sample == dataset.test[pos]
        IN  /\ files' =
                  IF out.saved
                  THEN [q \in DOMAIN files \cup {HeatmapPath(sample.file),
                                                MaskPath(sample.file)} |->
                           IF q = HeatmapPath(sample.file) THEN out.heatmap_png
                           ELSE IF q = MaskPath(sample.file) THEN out.mask_png
                           ELSE files[q]]
                  ELSE files
            /\ calls_made' =
                  calls_made \o [k \in DOMAIN out.calls |->
                                    [sample |-> pos, call |-> out.calls[k]]]
            /\ IF out.raised = "none"
               THEN /\ results' = Append(results, out.record)
                    /\ pos' = pos + 1
                    /\ UNCHANGED <<pc, ret>>
               ELSE /\ pc' = "raised"
                    /\ ret' = Raise(out.raised)
                    /\ UNCHANGED <<results, pos>>
    /\ UNCHANGED <<app, call, rpm_table, mean, std, shape, last_fit, cfg, env,
                   dataset>>

\* return {"results": results}
Return ==
    /\ pc = "loop"
    /\ pos > Len(dataset.test)
    /\ pc' = "returned"
    /\ ret' = [raised |-> "none", results |-> results]
    /\ UNCHANGED <<app, call, rpm_table, mean, std, shape, last_fit, cfg, env,
                   dataset, pos, results, files, calls_made>>

Init ==
    /\ call = [op |-> "run_pipeline"]
    /\ ret = None
    /\ \E setup \in Setups :
        /\ cfg = setup[1]
        /\ env = setup[2]
    /\ dataset \in Datasets
    /\ rpm_table = PipelineRpm
    /\ mean = None
    /\ std = None
    /\ shape = None
    /\ last_fit = None
    /\ pos = 0
    /\ results = <<>>
    /\ files = <<>>
    /\ calls_made = <<>>
    /\ pc = "start"
    /\ NoApp

Next ==
    \/ FitTrain
    \/ ProcessSample
    \/ Return

Spec == Init /\ [][Next]_vars

\* The record of results[i] was made from a configuration whose risk keys
\* are unresolved: one is absent, or no row of the table has them.
Unresolved(c, table) ==
    \/ c.risk[1] = None \/ c.risk[2] = None \/ c.risk[3] = None
    \/ FirstMatch(table, c.risk[1], c.risk[2], c.risk[3]) = 0

\* C2 as stated: every result record appended by run_pipeline has a non-null
\* risk_class and a non-null action.
C2_RiskClassAndAction ==
    \A i \in DOMAIN results :
        /\ results[i].risk_class # None
        /\ results[i].action # None

\* C2, amended: in every result record appended by run_pipeline, risk_class
\* and risk_score are null when severity/occurrence/detection are absent from
\* cfg or match no RPM row, and are those of the first matching row
\* otherwise; action is the risk_to_action entry of risk_class when there is
\* one and the REVIEW_REQUIRED entry otherwise, so it is non-null whenever
\* risk_to_action has a REVIEW_REQUIRED entry.
C2_NullRiskFallbackAction ==
    \A i \in DOMAIN results :
        LET r == results[i]
            m == cfg.risk_to_action
            hit == FirstMatch(rpm_table, cfg.risk[1], cfg.risk[2], cfg.risk[3])
        IN  /\ Unresolved(cfg, rpm_table) =>
                   r.risk_class = None /\ r.risk_score = None
            /\ ~Unresolved(cfg, rpm_table) =>
                   /\ r.risk_class = rpm_table[hit].risk_class
                   /\ r.risk_score = rpm_table[hit].risk_score
            /\ (r.risk_class # None /\ Val(r.risk_class) \in DOMAIN m) =>
                   r.action = Some(m[Val(r.risk_class)])
            /\ ((r.risk_class = None \/ Val(r.risk_class) \notin DOMAIN m)
                /\ "REVIEW_REQUIRED" \in DOMAIN m) =>
                   r.action = Some(m["REVIEW_REQUIRED"])
            /\ "REVIEW_REQUIRED" \in DOMAIN m => r.action # None

\* A run returned a record whose keys matched no row: its risk_class is null
\* and its action is the REVIEW_REQUIRED entry.
C2_Witness ==
    /\ pc = "returned"
    /\ Len(results) > 0
    /\ cfg.risk = <<Some(2), Some(2), Some(1)>>
    /\ results[1].risk_class = None
    /\ results[1].action = Some("MANUAL_REVIEW")

\* A test sample the loop body fails on though the configuration and the
\* imports are sound: its file cannot be read, or its shape is not the
\* fitted one.
BadSample(s) ==
    \/ s.content = None
    \/ Val(s.content).shape # Val(shape)

\* C7: in a run whose model was fitted and whose configuration is the base
\* one with the labeler on its fallback, a test sample that cannot be read
\* or has another shape does not abort the batch: the run returns, with one
\* record for every other sample, in order.
C7_FailureIsolated ==
    (/\ pc \in {"returned", "raised"}
     /\ mean # None
     /\ cfg = BaseCfg
     /\ env = [runtime |-> "missing", skimage |-> "loaded"]
     /\ \E i \in DOMAIN dataset.test : BadSample(dataset.test[i])) =>
        LET sound == SelectSeq(dataset.test, LAMBDA s : ~BadSample(s))
        IN  /\ pc = "returned"
            /\ Len(results) = Len(sound)
            /\ \A k \in DOMAIN results : results[k].image_id = sound[k].file

(***************************************************************************)
(* postproc/mask.py: threshold_heatmap on its own                          *)
(***************************************************************************)
\* Heatmaps given to threshold_heatmap, in units of 1/NormScale: 0.1, 0.2,
\* 0.5, 0.6 and 0.9 on one row of up to MaxWidth pixels or on 2 x 2 pixels.
MaskVals == {100, 200, 500, 600, 900}
MaskShapes == {<<2, 2>>} \cup {<<1, n>> : n \in 1..MaxWidth}
MaskHeatmaps == UNION {[Idx2(s) -> MaskVals] : s \in MaskShapes}
ThresholdMethods == {"fixed", "percentile", "otsu"}
\* value: 0.5 and 0.55; percentile: 0, 50, 99.5, 100 and two outside [0, 100]
ThresholdValues == {500, 550}
Percentiles == {0, 500, 995, 1000, 1001, 0 - 1}

ThresholdHeatmap ==
    /\ call = NoCall
    /\ \E hm \in MaskHeatmaps, method \in ThresholdMethods,
          value \in ThresholdValues, percentile \in Percentiles :
        /\ call' = [op |-> "threshold_heatmap", hm |-> hm, method |-> method,
                    value |-> value, percentile |-> percentile]
        /\ ret' = threshold_heatmap(hm, method, value, percentile)
        /\ UNCHANGED <<rpm_table, mean, std, shape, last_fit, pipe, app>>

InitMask ==
    /\ call = NoCall
    /\ ret = None
    /\ rpm_table = <<>>
    /\ mean = None
    /\ std = None
    /\ shape = None
    /\ last_fit = None
    /\ NoPipeline
    /\ NoApp

NextMask == ThresholdHeatmap

SpecMask == InitMask /\ [][NextMask]_vars

\* The values of hm in ascending order, each as often as it occurs
Ascending(hm) ==
    LET vals == {hm[ij] : ij \in DOMAIN hm}
        n == Cardinality(DOMAIN hm)
    IN  CHOOSE seq \in [1..n -> vals] :
            /\ \A i \in 1..(n - 1) : seq[i] <= seq[i + 1]
            /\ \A v \in vals :
                   Cardinality({i \in 1..n : seq[i] = v})
                       = Cardinality({ij \in DOMAIN hm : hm[ij] = v})

\* 100 * PctScale times the q-th percentile of hm: the weighted mean of the
\* two values of the ascending order around the rank q/100 * (n - 1)
PercentileTimes(hm, q) ==
    LET n == Cardinality(DOMAIN hm)
        den == 100 * PctScale
        k == (q * (n - 1)) \div den
        f == (q * (n - 1)) % den
        asc == Ascending(hm)
    IN  asc[k + 1] * (den - f) + (IF k + 2 <= n THEN asc[k + 2] ELSE asc[k + 1]) * f

ExampleHeatmap ==
    [ij \in (1..2) \X (1..2) |->
        IF ij = <<1, 1>> THEN 200 ELSE IF ij = <<1, 2>> THEN 600
        ELSE IF ij = <<2, 1>> THEN 900 ELSE 100]
ExampleMask ==
    [ij \in (1..2) \X (1..2) |-> IF ij \in {<<1, 2>>, <<2, 1>>} THEN 1 ELSE 0]

\* C11: threshold_heatmap returns a 0/1 mask of the shape of the heatmap in
\* which a pixel is 1 exactly when its value is >= the threshold, the
\* threshold being `value` for "fixed" and the percentile (within [0, 100])
\* of the heatmap's own values for "percentile"; any other method fails;
\* fixed 0.5 on [[0.2,0.6],[0.9,0.1]] gives [[0,1],[1,0]].
C11_ThresholdHeatmap ==
    call.op = "threshold_heatmap" =>
        /\ call.method = "fixed" =>
               /\ ret.raised = "none"
               /\ DOMAIN ret.mask = DOMAIN call.hm
               /\ \A ij \in DOMAIN call.hm :
                      /\ ret.mask[ij] \in {0, 1}
                      /\ ret.mask[ij] = 1 <=> call.hm[ij] >= call.value
        /\ (call.method = "fixed" /\ call.hm = ExampleHeatmap
            /\ call.value = 500) => ret.mask = ExampleMask
        /\ (call.method = "percentile" /\ call.percentile >= 0
            /\ call.percentile <= 100 * PctScale) =>
               /\ ret.raised = "none"
               /\ DOMAIN ret.mask = DOMAIN call.hm
               /\ \A ij \in DOMAIN call.hm :
                      /\ ret.mask[ij] \in {0, 1}
                      /\ ret.mask[ij] = 1 <=>
                             call.hm[ij] * 100 * PctScale
                                 >= PercentileTimes(call.hm, call.percentile)
        /\ call.method \notin {"fixed", "percentile"} =>
               ret = Raise("ValueError")

\* The 50th percentile of [[0.2,0.6],[0.9,0.1]] lies between 0.2 and 0.6:
\* the mask has the two pixels above it.
C11_Witness ==
    /\ call.op = "threshold_heatmap"
    /\ call.method = "percentile"
    /\ call.percentile = 500
    /\ call.hm = ExampleHeatmap
    /\ ret.raised = "none"
    /\ ret.mask = ExampleMask

(***************************************************************************)
(* postproc/bboxes.py: mask_to_bboxes on its own                           *)
(***************************************************************************)
\* Masks of 0 and 1 on one row of up to MaxWidth pixels, on 2 x 2 and on
\* 3 x 3 pixels; min_area 1, 2, 3 and the default 20.
BoxShapes == {<<2, 2>>, <<3, 3>>} \cup {<<1, n>> : n \in 1..MaxWidth}
Masks == UNION {[Idx2(s) -> {0, 1}] : s \in BoxShapes}
MinAreas == {1, 2, 3, 20}

MaskToBboxes ==
    /\ call = NoCall
    /\ \E mask \in Masks, min_area \in MinAreas,
          skimage \in {"loaded", "missing"} :
        /\ call' = [op |-> "mask_to_bboxes", mask |-> mask,
                    min_area |-> min_area, skimage |-> skimage]
        /\ ret' = mask_to_bboxes(mask, min_area, skimage)
        /\ UNCHANGED <<rpm_table, mean, std, shape, last_fit, pipe, app>>

InitBoxes ==
    /\ call = NoCall
    /\ ret = None
    /\ rpm_table = <<>>
    /\ mean = None
    /\ std = None
    /\ shape = None
    /\ last_fit = None
    /\ NoPipeline
    /\ NoApp

NextBoxes == MaskToBboxes

SpecBoxes == InitBoxes /\ [][NextBoxes]_vars

\* The pairs of foreground pixels joined by a chain of touching foreground
\* pixels: the closure of Touch under composition
RECURSIVE Chained(_)
Chained(R) ==
    LET joined == R \cup {<<x[1][1], x[2][2]>> :
                             x \in {y \in R \X R : y[1][2] = y[2][1]}}
    IN  IF joined = R THEN R ELSE Chained(joined)

Linked(mask) ==
    LET fg == {ij \in DOMAIN mask : mask[ij] > 0}
    IN  Chained({<<p, q>> \in fg \X fg : p = q \/ Touch(p, q)})

\* The connected components of the foreground
Components(mask) ==
    LET fg == {ij \in DOMAIN mask : mask[ij] > 0}
        linked == Linked(mask)
    IN  {{q \in fg : <<p, q>> \in linked} : p \in fg}

\* [x_min, y_min, x_max, y_max] of a set of pixels, 0-based, with x_max and
\* y_max one past the last column and row
Extents(comp) ==
    <<CHOOSE x \in {p[2] - 1 : p \in comp} : \A p \in comp : x <= p[2] - 1,
      CHOOSE y \in {p[1] - 1 : p \in comp} : \A p \in comp : y <= p[1] - 1,
      CHOOSE x \in {p[2] : p \in comp} : \A p \in comp : p[2] <= x,
      CHOOSE y \in {p[1] : p \in comp} : \A p \in comp : p[1] <= y>>

\* Pixel p (row, column, from 1) lies in the box
InBox(p, box) ==
    /\ box[1] <= p[2] - 1 /\ p[2] - 1 < box[3]
    /\ box[2] <= p[1] - 1 /\ p[1] - 1 < box[4]

\* C12: mask_to_bboxes returns exactly one box for each connected foreground
\* component of at least min_area pixels, that box being the component's
\* row/column extents and so enclosing every pixel of it, and no box for a
\* smaller component; an all-zero mask gives the empty list.
C12_MaskToBboxes ==
    (call.op = "mask_to_bboxes" /\ call.skimage = "loaded") =>
        LET big == {c \in Components(call.mask) :
                       Cardinality(c) >= call.min_area}
            boxes == ret.bboxes
        IN  /\ ret.raised = "none"
            /\ Len(boxes) = Cardinality(big)
            /\ \A c \in big :
                   /\ Cardinality({i \in DOMAIN boxes : boxes[i] = Extents(c)})
                          = Cardinality({o \in big : Extents(o) = Extents(c)})
                   /\ \E i \in DOMAIN boxes : \A p \in c : InBox(p, boxes[i])
            /\ (\A ij \in DOMAIN call.mask : call.mask[ij] = 0) => boxes = <<>>

\* A 3 x 3 mask with a component of three pixels joined by corners and
\* sides and a component of one pixel; with min_area 2 only the first gets
\* a box.
C12_Witness ==
    /\ call.op = "mask_to_bboxes"
    /\ call.skimage = "loaded"
    /\ DOMAIN call.mask = (1..3) \X (1..3)
    /\ {ij \in DOMAIN call.mask : call.mask[ij] = 1}
           = {<<1, 1>>, <<2, 1>>, <<3, 2>>, <<1, 3>>}
    /\ call.min_area = 2
    /\ ret.raised = "none"
    /\ ret.bboxes = << <<0, 0, 2, 3>> >>

\* The pixels covered by at least one of the boxes
Covered(boxes) ==
    {p \in (1..(MaxWidth + 3)) \X (1..(MaxWidth + 3)) :
        \E i \in DOMAIN boxes : InBox(p, boxes[i])}

ConfArgs == Grid \cup {Scale \div 5, 4 * (Scale \div 5), 0 - (Scale \div 2),
                       3 * (Scale \div 2)}
CombineMethods == {"min", "mean", "max"}

CombineConfidence ==
    /\ call = NoCall
    /\ \E anomaly_conf \in ConfArgs, vlm_conf \in ConfArgs,
          method \in CombineMethods :
        /\ call' = [op |-> "combine_confidence", anomaly_conf |-> anomaly_conf,
                    vlm_conf |-> vlm_conf, method |-> method]
        /\ ret' = combine_confidence(anomaly_conf, vlm_conf, method)
        /\ UNCHANGED <<rpm_table, mean, std, shape, last_fit, pipe, app>>

InitCombine ==
    /\ call = NoCall
    /\ ret = None
    /\ rpm_table = <<>>
    /\ mean = None
    /\ std = None
    /\ shape = None
    /\ last_fit = None
    /\ NoPipeline
    /\ NoApp

NextCombine == CombineConfidence

SpecCombine == InitCombine /\ [][NextCombine]_vars

\* C14: combine_confidence(a, b, "min") returns the lower of a and b,
\* combine_confidence(a, b, "mean") returns (a + b) / 2, any other method
\* fails; combine(0.2, 0.8, min) = 0.2 and combine(0.2, 0.8, mean) = 0.5;
\* for a and b in [0, 1] the result lies between min(a, b) and max(a, b).
C14_CombineConfidence ==
    call.op = "combine_confidence" =>
        LET a == call.anomaly_conf
            b == call.vlm_conf
        IN  /\ call.method = "min" =>
                   /\ ret.raised = "none"
                   /\ ret.value \in {a, b}
                   /\ ret.value <= a /\ ret.value <= b
            /\ call.method = "mean" =>
                   /\ ret.raised = "none"
                   /\ 2 * ret.value = a + b
            /\ call.method \notin {"min", "mean"} => ret = Raise("ValueError")
            /\ (a = Scale \div 5 /\ b = 4 * (Scale \div 5)) =>
                   /\ call.method = "min" => ret.value = Scale \div 5
                   /\ call.method = "mean" => ret.value = Scale \div 2
            /\ (call.method \in {"min", "mean"}
                /\ 0 <= a /\ a <= Scale /\ 0 <= b /\ b <= Scale) =>
                   /\ (IF a <= b THEN a ELSE b) <= ret.value
                   /\ ret.value <= (IF a <= b THEN b ELSE a)

\* combine_confidence(0.2, 0.8, "mean") returned 0.5.
C14_Witness ==
    /\ call.op = "combine_confidence"
    /\ call.method = "mean"
    /\ call.anomaly_conf = Scale \div 5
    /\ call.vlm_conf = 4 * (Scale \div 5)
    /\ ret.raised = "none"
    /\ ret.value = Scale \div 2

(***************************************************************************)
(* run_pipeline: what a result record says of its sample                   *)
(***************************************************************************)
\* The pixels (row, column) at which an image differs from a reference image
\* of the same shape
Deviant(image, ref) ==
    {ij \in Idx2(image.shape) :
        \E k \in 1..image.shape[3] :
            image.px[<<ij[1], ij[2], k>>] # ref.px[<<ij[1], ij[2], k>>]}

\* A set of pixels that is one square block, smaller than the image
IsSquare(lit, sh) ==
    /\ lit # {}
    /\ lit # Idx2(sh)
    /\ \E r0 \in 1..sh[1], c0 \in 1..sh[2], side \in 1..sh[1] :
           lit = (r0..(r0 + side - 1)) \X (c0..(c0 + side - 1))

\* The train/good images are all the same image
IdenticalTrain ==
    /\ dataset.train # <<>>
    /\ \A a, b \in DOMAIN dataset.train : dataset.train[a] = dataset.train[b]

\* The i-th test sample is an image that differs from the train image in
\* exactly one square region
SquareDefect(i) ==
    /\ IdenticalTrain
    /\ dataset.test[i].content # None
    /\ Val(dataset.test[i].content).shape = dataset.train[1].shape
    /\ IsSquare(Deviant(Val(dataset.test[i].content), dataset.train[1]),
                dataset.train[1].shape)

\* C15: with a model fitted on identical good images, the record of a test
\* image that deviates in exactly one square region has a positive score,
\* image_decision "anomalous" whenever image_threshold is below the score,
\* exactly one bounding box, which encloses the square, whenever min_area is
\* not above the square's pixel count, and human_review_required True
\* whenever its label is the unknown label.  (results[i] is the record of the
\* i-th test sample: a sample without a record ends the run.)
C15_EndToEnd ==
    \A i \in DOMAIN results :
        SquareDefect(i) =>
            LET r == results[i]
                lit == Deviant(Val(dataset.test[i].content), dataset.train[1])
            IN  /\ r.anomaly_score > 0
                /\ cfg.image_threshold < r.anomaly_score =>
                       r.image_decision = "anomalous"
                /\ cfg.min_area <= Cardinality(lit) =>
                       /\ Len(r.bboxes) = 1
                       /\ \A p \in lit : InBox(p, r.bboxes[1])
                /\ r.defect_label = cfg.unknown_label =>
                       r.human_review_required = TRUE

\* A run returned the record of an image with a deviant 2 x 2 square: one
\* box around the square, "anomalous", and review required for the unknown
\* label that the model gave with confidence 1.
C15_Witness ==
    /\ pc = "returned"
    /\ Len(results) > 0
    /\ SquareDefect(1)
    /\ Cardinality(Deviant(Val(dataset.test[1].content), dataset.train[1])) = 4
    /\ results[1].bboxes = << <<0, 0, 2, 2>> >>
    /\ results[1].image_decision = "anomalous"
    /\ results[1].defect_label = cfg.unknown_label
    /\ results[1].confidence = Scale
    /\ results[1].human_review_required = TRUE

\* The raw score of the i-th test sample on the fitted model: the largest
\* value of its heatmap, in units of 1/HeatScale
RawScore(i) ==
    MaxOf(HeatmapOf(Val(mean), Val(std), Val(dataset.test[i].content)))

\* C16: in every record image_decision is "anomalous" exactly when the raw
\* score is >= image_threshold and "normal" otherwise; the anomaly confidence
\* given to combine_confidence is min(1, score / image_threshold) when
\* image_threshold > 0 and 0 otherwise, so that for image_threshold > 0 it is
\* 1 exactly when the score is >= image_threshold.
C16_DecisionAndConfidence ==
    /\ \A i \in DOMAIN results :
           /\ results[i].anomaly_score = RawScore(i)
           /\ results[i].image_decision \in {"anomalous", "normal"}
           /\ results[i].image_decision = "anomalous"
                  <=> RawScore(i) >= cfg.image_threshold
    /\ \A k \in DOMAIN calls_made :
           calls_made[k].call.op = "combine_confidence" =>
               LET raw == RawScore(calls_made[k].sample)
                   t == cfg.image_threshold
                   a == calls_made[k].call.anomaly_conf
               IN  /\ t <= 0 => a = 0
                   /\ (t > 0 /\ raw >= t) => a = Scale
                   /\ (t > 0 /\ raw < t) =>
                          /\ a < Scale
                          /\ a * t <= raw * Scale
                          /\ raw * Scale < (a + 1) * t

\* A run returned a record with a score below a positive image_threshold:
\* the decision is "normal" and the anomaly confidence given to the fusion is
\* strictly between 0 and 1.
C16_Witness ==
    /\ pc = "returned"
    /\ Len(results) > 0
    /\ cfg.image_threshold > 0
    /\ results[1].image_decision = "normal"
    /\ results[1].anomaly_score > 0
    /\ \E k \in DOMAIN calls_made :
           /\ calls_made[k].sample = 1
           /\ calls_made[k].call.op = "combine_confidence"
           /\ calls_made[k].call.anomaly_conf > 0
           /\ calls_made[k].call.anomaly_conf < Scale

\* The mask of the i-th test sample
MaskOf(i) ==
    threshold_heatmap(
        normalize_heatmap(
            HeatmapOf(Val(mean), Val(std), Val(dataset.test[i].content)),
            cfg.heatmap_normalize).value,
        cfg.threshold_method, cfg.threshold_value,
        cfg.threshold_percentile).mask

\* C17: for every sample with a record, the labeler was called with that
\* sample's anomaly score, with bbox_count the number of its boxes and with
\* mask_ratio the fraction of its mask pixels that are set (the score is in
\* units of 1/HeatScale, the labeler's arguments in units of 1/Scale).
C17_LabelerGetsSample ==
    \A i \in DOMAIN results :
        \A k \in DOMAIN calls_made :
            (calls_made[k].sample = i
             /\ calls_made[k].call.op = "infer_defect_label") =>
                LET args == calls_made[k].call
                    mask == MaskOf(i)
                IN  /\ args.anomaly_score % (Scale \div HeatScale) = 0
                    /\ args.anomaly_score \div (Scale \div HeatScale)
                           = results[i].anomaly_score
                    /\ args.bbox_count = Len(results[i].bboxes)
                    /\ args.mask_ratio * Cardinality(DOMAIN mask) <=
                           Scale * Cardinality({ij \in DOMAIN mask : mask[ij] > 0})
                    /\ (args.mask_ratio + 1) * Cardinality(DOMAIN mask) >
                           Scale * Cardinality({ij \in DOMAIN mask : mask[ij] > 0})

(***************************************************************************)
(* vlm/semantics.py: the fallback labeler and the degraded results         *)
(***************************************************************************)
\* The place of a label in sorted(label_set): Python orders strings by code
\* point, upper case before lower case
SortPlace(x) == CHOOSE i \in DOMAIN SortedLabels : SortedLabels[i] = x

\* The label of `among` that comes first in sorted order
FirstSorted(among) ==
    CHOOSE x \in among : \A y \in among : SortPlace(x) <= SortPlace(y)

\* The first label in sorted order whose lower-cased text has one of the two
\* keywords, if there is one, and the first label otherwise
Preferred(label_set, kw1, kw2) ==
    LET hits == {x \in label_set :
                    Contains(Lower(x), kw1) \/ Contains(Lower(x), kw2)}
    IN  IF hits # {} THEN FirstSorted(hits) ELSE FirstSorted(label_set)

\* C18: _heuristic_vlm_fallback returns the unknown label with confidence 0
\* for an empty label set; else the unknown label with confidence 0.25 when
\* anomaly_score < 0.15 and bbox_count = 0; else the label of the set
\* preferred by the geometry rule (contam/stain for bbox_count >= 3 and
\* mask_ratio >= 0.05, small/scratch for bbox_count <= 1 and mask_ratio <
\* 0.02, large/crack otherwise, the first label in sorted order when none
\* has the keyword) with confidence clamp(0.3, 0.85, 0.45 + 0.35 *
\* min(1, score) + 0.15 * min(1, 5 * mask_ratio)), to within one unit 1/Scale.
C18_HeuristicFallback ==
    call.op = "heuristic_vlm_fallback" =>
        LET ls == call.label_set
            sc == call.anomaly_score
            n == call.bbox_count
            mr == call.mask_ratio
            x100 == 45 * Scale + 35 * (IF sc < Scale THEN sc ELSE Scale)
                        + 15 * (IF 5 * mr < Scale THEN 5 * mr ELSE Scale)
        IN  /\ ret.raised = "none"
            /\ ls = {} =>
                   ret.defect_label = call.unknown_label /\ ret.confidence = 0
            /\ (ls # {} /\ sc < 15 * (Scale \div 100) /\ n = 0) =>
                   /\ ret.defect_label = call.unknown_label
                   /\ ret.confidence = Scale \div 4
            /\ (ls # {} /\ ~(sc < 15 * (Scale \div 100) /\ n = 0)) =>
                   /\ (n >= 3 /\ mr >= 5 * (Scale \div 100)) =>
                          ret.defect_label = Preferred(ls, "contam", "stain")
                   /\ (~(n >= 3 /\ mr >= 5 * (Scale \div 100))
                       /\ n <= 1 /\ mr < 2 * (Scale \div 100)) =>
                          ret.defect_label = Preferred(ls, "small", "scratch")
                   /\ (~(n >= 3 /\ mr >= 5 * (Scale \div 100))
                       /\ ~(n <= 1 /\ mr < 2 * (Scale \div 100))) =>
                          ret.defect_label = Preferred(ls, "large", "crack")
                   /\ ret.confidence >= 30 * (Scale \div 100)
                   /\ ret.confidence <= 85 * (Scale \div 100)
                   /\ (x100 >= 30 * Scale /\ x100 <= 85 * Scale) =>
                          /\ 100 * ret.confidence <= x100
                          /\ x100 < 100 * (ret.confidence + 1)
                   /\ x100 > 85 * Scale =>
                          ret.confidence = 85 * (Scale \div 100)

\* Three boxes and mask_ratio 0.05 on the full label set with score 0.6:
\* the stain label, which is written "Stain", with confidence
\* 0.45 + 0.21 + 0.0375.
C18_Witness ==
    /\ call.op = "heuristic_vlm_fallback"
    /\ call.label_set = LabelPool
    /\ call.bbox_count = 3
    /\ call.mask_ratio = 50000
    /\ call.anomaly_score = 600000
    /\ ret.defect_label = "Stain"
    /\ ret.confidence = 697500

\* The response holds a JSON object, between its first "{" and its last "}",
\* whose evidence is a list and whose confidence is a number
Parses(text) ==
    LET start == Find(text, "{")
        end == RFind(text, "}")
    IN  /\ start # 0 /\ end # 0 /\ end > start
        /\ ~ParseRaises(text, start, end)

\* The unknown label with confidence 0 and a non-empty evidence
Degraded(r, unknown_label) ==
    /\ r.raised = "none"
    /\ r.defect_label = unknown_label
    /\ r.confidence = 0
    /\ r.evidence # <<>>

\* The (call, text) pairs in which the model's response was parsed
ModelText ==
    IF call.op = "parse_response" THEN <<call.text>>
    ELSE IF call.op = "infer_defect_label" /\ call.image = "present"
            /\ call.runtime = "loaded" /\ call.generated # None
    THEN <<Val(call.generated)>>
    ELSE <<>>

\* C19: the labeler returns the unknown label with confidence 0 and a
\* non-empty evidence when the model's response cannot be parsed, when the
\* image is absent, and when the label of the response is outside label_set
\* and is not unknown_label; otherwise it returns the label of the response
\* with its confidence clamped to [0, 1].
C19_Degrades ==
    /\ ModelText # <<>> =>
           LET text == ModelText[1]
               start == Find(text, "{")
               end == RFind(text, "}")
               label == ParsedLabel(text, start, end, call.unknown_label)
               given == ParsedConfidence(text, start, end)
           IN  /\ ~Parses(text) => Degraded(ret, call.unknown_label)
               /\ (Parses(text)
                   /\ label \notin call.label_set \cup {call.unknown_label}) =>
                      Degraded(ret, call.unknown_label)
               /\ (Parses(text)
                   /\ label \in call.label_set \cup {call.unknown_label}) =>
                      /\ ret.raised = "none"
                      /\ ret.defect_label = label
                      /\ ret.confidence =
                             (IF given < 0 THEN 0
                              ELSE IF given > Scale THEN Scale ELSE given)
    /\ (call.op = "infer_defect_label" /\ call.image = "none") =>
           Degraded(ret, call.unknown_label)

\* C20: every result returned by infer_defect_label, on the model path, on
\* the fallback for an absent image and on the fallback for a missing
\* runtime, has at most 3 evidence strings.
C20_EvidenceAtMostThree ==
    (call.op = "infer_defect_label" /\ ret.raised = "none") =>
        Len(ret.evidence) <= 3

(***************************************************************************)
(* app/api/deps.py, app/api/auth.py: who may call the web API              *)
(*                                                                         *)
(* A request is served in one step, from the resolution of its             *)
(* dependencies to its response; resp keeps the request, the response and  *)
(* whether the handler's body ran.                                         *)
(***************************************************************************)
Roles == {"ADMIN", "USER"}

\* table factories: the seeded factory and one created by an administrator
Factories == {"f1", "f2"}

\* seed(): admin@local and user@local, both active, in the seeded factory
SeedUsers ==
    [u \in {"admin", "user"} |->
        [role |-> IF u = "admin" THEN "ADMIN" ELSE "USER",
         is_active |-> TRUE,
         factory_id |-> "f1"]]

UserIds == DOMAIN SeedUsers

\* create_access_token: the payload carries the user's id and the role the
\* user had at login; exp is held as whether it has passed when presented.
create_access_token(subject, role) ==
    [kind |-> "jwt", sub |-> subject, role |-> role, expired |-> FALSE]

\* "Bearer broken": a string that is no token signed with the secret
Broken == [kind |-> "broken"]

\* What a client can present: no Authorization header, a broken token, a
\* token it was issued, or such a token after its expiry.
Presented(issued_tokens) ==
    {None, Some(Broken)}
        \cup {Some(t) : t \in issued_tokens}
        \cup {Some([t EXCEPT !.expired = TRUE]) : t \in issued_tokens}

\* decode_token: jwt.decode raises JWTError on a bad signature and on an
\* expired token, which becomes ValueError.
decode_token(token) ==
    IF token.kind = "broken" \/ token.expired
    THEN Raise("ValueError")
    ELSE [raised |-> "none", payload |-> [sub |-> token.sub,
                                          role |-> token.role]]

Rejection(code, detail) == [status |-> code, detail |-> detail]

\* get_current_user, after oauth2_scheme, which answers 401 to a request
\* without a bearer token.
get_current_user(table, token) ==
    IF token = None THEN Rejection(401, "Not authenticated")
    ELSE LET decoded == decode_token(Val(token))
         IN  IF decoded.raised # "none"
             THEN Rejection(401, "Invalid token")
             ELSE LET user_id == decoded.payload.sub
                  IN  IF user_id \notin DOMAIN table
                         \/ ~table[user_id].is_active
                      THEN Rejection(401, "Invalid user")
                      ELSE [status |-> 200, user |-> user_id]

\* A checker that requires nothing of the role.
require_role_any(role, table, token) == get_current_user(table, token)

\* require_role(role): the role is the one in the table, not the token's.
require_role(role, table, token) ==
    LET current == get_current_user(table, token)
    IN  IF current.status # 200 THEN current
        ELSE IF table[current.user].role # role
             THEN Rejection(403, "Insufficient role")
             ELSE current

Routers == {"admin", "user", "auth"}

\* The dependencies of a router: admin_required, user_required, and
\* get_current_user for /auth/me.
Authorize(router, table, token) ==
    IF router = "admin" THEN require_role("ADMIN", table, token)
    ELSE IF router = "user" THEN require_role("USER", table, token)
    ELSE get_current_user(table, token)

\* The tables and the storage root as a request finds them.
Tables ==
    [users |-> users, status_images |-> status_images, scans |-> scans,
     scan_images |-> scan_images, stored |-> stored]

\* The response to a request, with the request and whether the handler's
\* body ran; FastAPI resolves the dependencies of a route before it calls
\* the handler, and an HTTPException raised there is the response.
Response(op, router, token, args, status, ran, data) ==
    Some([op |-> op, router |-> router, token |-> token, args |-> args,
          status |-> status, ran |-> ran, data |-> data, before |-> Tables])

\* authenticate_user: the user with that email, if the password verifies
authenticate_user(table, email, password_ok) ==
    IF email \notin DOMAIN table THEN None
    ELSE IF ~password_ok THEN None
    ELSE Some(email)

\* POST /auth/login
Login ==
    /\ \E email \in UserIds, password_ok \in BOOLEAN :
        LET user == authenticate_user(users, email, password_ok)
        IN  IF user = None \/ ~users[Val(user)].is_active
            THEN /\ resp' = Response("login", "auth", None, email, 401,
                                     TRUE, None)
                 /\ tokens' = tokens
            ELSE LET token == create_access_token(Val(user),
                                                  users[Val(user)].role)
                 IN  /\ resp' = Response("login", "auth", None, email, 200,
                                         TRUE, Some(token))
                     /\ tokens' = tokens \cup {token}
    /\ UNCHANGED <<users, status_images, scans, scan_images, stored, issued,
                   reqs, created, cam, callers, core>>

\* A route that reads and changes nothing: GET /auth/me, GET /admin/users,
\* GET /user/products.
ReadOnly(op, router) ==
    /\ \E token \in Presented(tokens) :
        LET allowed == Authorize(router, users, token)
        IN  IF allowed.status # 200
            THEN resp' = Response(op, router, token, None, allowed.status,
                                  FALSE, None)
            ELSE resp' = Response(op, router, token, None, 200, TRUE, None)
    /\ UNCHANGED <<users, tokens, status_images, scans, scan_images, stored,
                   issued, reqs, created, cam, callers, core>>

Me == ReadOnly("me", "auth")

ListUsers == ReadOnly("list_users", "admin")

ListProducts == ReadOnly("list_products", "user")

\* UserIn, as far as access control reads it
UserPayloads == [role : Roles, is_active : BOOLEAN, factory_id : Factories]

\* PUT /admin/users/{user_id}, for the tokens, ids and bodies given
UpdateUserWith(presented, ids, payloads) ==
    /\ \E token \in presented, user_id \in ids, payload \in payloads :
        LET allowed == Authorize("admin", users, token)
        IN  IF allowed.status # 200
            THEN /\ resp' = Response("update_user", "admin", token, user_id,
                                     allowed.status, FALSE, None)
                 /\ users' = users
            ELSE IF user_id \notin DOMAIN users
            THEN /\ resp' = Response("update_user", "admin", token, user_id,
                                     404, TRUE, None)
                 /\ users' = users
            ELSE /\ resp' = Response("update_user", "admin", token, user_id,
                                     200, TRUE, None)
                 /\ users' = [users EXCEPT ![user_id] = payload]
    /\ UNCHANGED <<tokens, status_images, scans, scan_images, stored, issued,
                   reqs, created, cam, callers, core>>

UpdateUser == UpdateUserWith(Presented(tokens), UserIds, UserPayloads)

\* DELETE /admin/users/{user_id}: scans.user_id restricts the delete.
DeleteUser ==
    /\ \E token \in Presented(tokens), user_id \in UserIds :
        LET allowed == Authorize("admin", users, token)
        IN  IF allowed.status # 200
            THEN /\ resp' = Response("delete_user", "admin", token, user_id,
                                     allowed.status, FALSE, None)
                 /\ users' = users
            ELSE IF user_id \notin DOMAIN users
            THEN /\ resp' = Response("delete_user", "admin", token, user_id,
                                     404, TRUE, None)
                 /\ users' = users
            ELSE IF \E s \in scans : s.user_id = user_id
            THEN /\ resp' = Response("delete_user", "admin", token, user_id,
                                     400, TRUE, None)
                 /\ users' = users
            ELSE /\ resp' = Response("delete_user", "admin", token, user_id,
                                     200, TRUE, None)
                 /\ users' = [u \in DOMAIN users \ {user_id} |-> users[u]]
    /\ UNCHANGED <<tokens, status_images, scans, scan_images, stored, issued,
                   reqs, created, cam, callers, core>>

\* The scoring pipeline and its parts are not in use.
NoCore ==
    /\ call = NoCall
    /\ ret = None
    /\ rpm_table = <<>>
    /\ mean = None
    /\ std = None
    /\ shape = None
    /\ last_fit = None
    /\ callers = <<>>
    /\ NoPipeline

\* The tables after seed() and an empty storage root; nothing served yet.
Seeded ==
    /\ users = SeedUsers
    /\ status_images = {}
    /\ scans = {}
    /\ scan_images = {}
    /\ stored = {}
    /\ issued = 0
    /\ reqs = <<>>
    /\ resp = None
    /\ created = {}

InitAccess ==
    /\ NoCore
    /\ NoCamera
    /\ Seeded
    /\ tokens = {}

NextAccess ==
    \/ Login
    \/ Me
    \/ ListUsers
    \/ ListProducts
    \/ UpdateUser
    \/ DeleteUser

SpecAccess == InitAccess /\ [][NextAccess]_vars

\* The presented token decodes: it was signed with the secret and has not
\* expired.
Authentic(token) ==
    token # None /\ Val(token).kind = "jwt" /\ ~Val(token).expired

\* The token decodes and names a user who exists and is active in the table.
ActiveUser(table, token) ==
    /\ Authentic(token)
    /\ Val(token).sub \in DOMAIN table
    /\ table[Val(token).sub].is_active

\* The request was rejected with that status and its handler did not run:
\* the tables are as the request found them.
RejectedWith(r, code) ==
    /\ r.status = code
    /\ ~r.ran
    /\ Tables = r.before

\* C21: a request to an /admin route by an active user whose role in the
\* table is not ADMIN is answered 403, one to a /user route by an active
\* user whose role is not USER is answered 403, and a request to either, or
\* to /auth/me, whose token does not decode or names a user who is missing
\* or inactive when the request arrives is answered 401; in each case the
\* handler's body does not run and the tables are unchanged.
C21_AccessControl ==
    (resp # None /\ Val(resp).op # "login") =>
        LET r == Val(resp)
            table == r.before.users
        IN  /\ ~ActiveUser(table, r.token) => RejectedWith(r, 401)
            /\ (ActiveUser(table, r.token) /\ r.router = "admin"
                /\ table[Val(r.token).sub].role # "ADMIN") =>
                   RejectedWith(r, 403)
            /\ (ActiveUser(table, r.token) /\ r.router = "user"
                /\ table[Val(r.token).sub].role # "USER") =>
                   RejectedWith(r, 403)
            /\ r.status \in {401, 403} => ~r.ran

\* An administrator who logged in, was then made a USER, and presents the
\* token issued at login to PUT /admin/users: 403, nothing updated.
C21_Witness ==
    /\ resp # None
    /\ Val(resp).op = "update_user"
    /\ RejectedWith(Val(resp), 403)
    /\ ActiveUser(users, Val(resp).token)
    /\ Val(Val(resp).token).role = "ADMIN"
    /\ users[Val(Val(resp).token).sub].role = "USER"

(***************************************************************************)
(* app/api/admin.py, app/db/crud.py, app/services/storage.py: the images   *)
(* of a product status                                                     *)
(***************************************************************************)
MaxUuids == 10      \* uuid4 values drawn in one behaviour
MaxOrder == 2       \* ids in the body of one reorder request

\* table product_statuses: the status the requests are about
ProductStatuses == {"s1"}

\* a status_id in the path of a request; "s0" is in no row
StatusRefs == ProductStatuses \cup {"s0"}

ALLOWED_MIME == {"image/jpeg", "image/png"}
ALLOWED_EXT == {".jpg", ".jpeg", ".png"}
MAX_SIZE_BYTES == 5 * 1024 * 1024

\* The uploads: the 1 KiB jpeg of the tests, a jpeg named .jpeg and sent
\* without a content type, a text file, and a png of one byte too many.
Uploads ==
    {[size |-> 1024, ext |-> ".jpg", content_type |-> "image/jpeg"],
     [size |-> 1024, ext |-> ".jpeg", content_type |-> ""],
     [size |-> 1024, ext |-> ".txt", content_type |-> "text/plain"],
     [size |-> MAX_SIZE_BYTES + 1, ext |-> ".png",
      content_type |-> "image/png"]}

\* validate_upload: the extension to store under, or ValueError
validate_upload(upload) ==
    IF upload.size > MAX_SIZE_BYTES THEN Raise("ValueError: max size")
    ELSE IF upload.content_type \in ALLOWED_MIME
         THEN [raised |-> "none",
               ext |-> IF upload.content_type = "image/jpeg" THEN ".jpg"
                       ELSE ".png"]
    ELSE IF upload.ext \in ALLOWED_EXT
         THEN [raised |-> "none",
               ext |-> IF upload.ext = ".jpeg" THEN ".jpg" ELSE upload.ext]
    ELSE Raise("ValueError: file type")

\* store_upload: the path written, named by a fresh uuid4
StoredPath(folder, uuid, ext) == <<folder, uuid, ext>>

\* the rows of one status
StatusImages(rows, status_id) == {r \in rows : r.product_status_id = status_id}

\* A capacity check that lets a fifth image in.
ensure_status_image_capacity_five(rows, status_id) ==
    LET count == Cardinality(StatusImages(rows, status_id))
    IN  IF count >= 5 THEN Raise("ValidationError")
        ELSE [raised |-> "none", count |-> count]

\* ensure_status_image_capacity
ensure_status_image_capacity(rows, status_id) ==
    LET count == Cardinality(StatusImages(rows, status_id))
    IN  IF count >= 4 THEN Raise("ValidationError")
        ELSE [raised |-> "none", count |-> count]

\* next_sort_order: the least of 1..4 that no row of the status uses
next_sort_order(rows, status_id) ==
    LET used == {r.sort_order : r \in StatusImages(rows, status_id)}
        free == {c \in 1..4 : c \notin used}
    IN  IF free = {} THEN Raise("ValidationError")
        ELSE [raised |-> "none",
              order |-> CHOOSE c \in free : \A d \in free : c <= d]

\* ck_product_status_images_sort_order, checked at commit
CheckSortOrder(rows) == \A r \in rows : r.sort_order >= 1 /\ r.sort_order <= 4

\* sorted(images, key=sort_order), as ids; rows that share a sort_order
\* are taken by id
RECURSIVE BySortOrder(_)
BySortOrder(rows) ==
    IF rows = {} THEN <<>>
    ELSE LET first == CHOOSE r \in rows :
                         \A q \in rows :
                             \/ r.sort_order < q.sort_order
                             \/ (r.sort_order = q.sort_order /\ r.id <= q.id)
         IN  <<first.id>> \o BySortOrder(rows \ {first})

\* [x for x in seq if keep(x)]
RECURSIVE Kept(_, _)
Kept(seq, keep) ==
    IF seq = <<>> THEN <<>>
    ELSE (IF seq[1] \in keep THEN <<seq[1]>> ELSE <<>>)
             \o Kept(Tail(seq), keep)

\* the last position of an id in a list (the last assignment wins)
LastIndex(seq, x) ==
    CHOOSE i \in 1..Len(seq) :
        seq[i] = x /\ \A j \in (i + 1)..Len(seq) : seq[j] # x

\* reorder_status_images: the rows of the status as the session holds them
\* before the commit
reorder_status_images(rows, status_id, ordered_ids) ==
    LET images == StatusImages(rows, status_id)
        ids == {img.id : img \in images}
        valid_ids == Kept(ordered_ids, ids)
        listed == {valid_ids[i] : i \in 1..Len(valid_ids)}
        remaining == Kept(BySortOrder(images), ids \ listed)
        final == valid_ids \o remaining
    IN  {IF r \in images
         THEN [r EXCEPT !.sort_order = LastIndex(final, r.id)]
         ELSE r : r \in rows}

\* delete_status_image: the other rows of the status renumbered from 1
Renumbered(rows, status_id) ==
    LET order == BySortOrder(StatusImages(rows, status_id))
    IN  {IF r.product_status_id = status_id
         THEN [r EXCEPT !.sort_order =
                  CHOOSE i \in 1..Len(order) : order[i] = r.id]
         ELSE r : r \in rows}

\* The tokens of the seeded accounts after both have logged in.
SeedTokens == {create_access_token(u, SeedUsers[u].role) : u \in UserIds}

\* What the clients of the seeded accounts present: their token, or a
\* broken one.
Bearer == {Some(Broken)} \cup {Some(t) : t \in SeedTokens}

MaximumOf4 == "Maximum of 4 images allowed per product status"

\* POST /admin/statuses/{status_id}/images, served alone.  resp.data is the
\* row made, or the detail of the error.
UploadStatusImage ==
    /\ \E token \in Bearer :
        LET allowed == Authorize("admin", users, token)
        IN  IF allowed.status # 200
            THEN /\ resp' = Response("upload_status_image", "admin", token,
                                     None, allowed.status, FALSE, None)
                 /\ UNCHANGED <<status_images, stored, issued>>
            ELSE \E status_id \in StatusRefs, file \in Uploads :
                LET args == [status_id |-> status_id, file |-> file]
                    answer(code, data) ==
                        Response("upload_status_image", "admin", token,
                                 Some(args), code, TRUE, data)
                    capacity ==
                        ensure_status_image_capacity(status_images, status_id)
                    valid == validate_upload(file)
                    path == StoredPath(<<"status_images", status_id>>,
                                       issued + 1, valid.ext)
                    order == next_sort_order(status_images, status_id)
                    item == [id |-> issued + 2,
                             product_status_id |-> status_id,
                             image_path |-> path,
                             sort_order |-> order.order]
                IN  IF status_id \notin ProductStatuses
                    THEN /\ resp' = answer(404, Some("Status not found"))
                         /\ UNCHANGED <<status_images, stored, issued>>
                    ELSE IF capacity.raised # "none"
                    THEN /\ resp' = answer(400, Some(MaximumOf4))
                         /\ UNCHANGED <<status_images, stored, issued>>
                    ELSE IF valid.raised # "none"
                    THEN /\ resp' = answer(400, Some(valid.raised))
                         /\ UNCHANGED <<status_images, stored, issued>>
                    ELSE IF order.raised # "none"
                    THEN /\ issued + 1 <= MaxUuids
                         /\ resp' = answer(400, Some(MaximumOf4))
                         /\ stored' = stored \cup {path}
                         /\ issued' = issued + 1
                         /\ UNCHANGED status_images
                    ELSE /\ issued + 2 <= MaxUuids
                         /\ resp' = answer(201, Some(item))
                         /\ stored' = stored \cup {path}
                         /\ issued' = issued + 2
                         /\ status_images' = status_images \cup {item}
    /\ UNCHANGED <<users, tokens, scans, scan_images, reqs, created, cam,
                   callers, core>>

\* the ids a reorder request can name: those of the rows, and 0, the id of
\* no row
IdRefs == {r.id : r \in status_images} \cup {0}

\* the bodies of a reorder request: lists of ids, repeats included
IdLists == UNION {[1..n -> IdRefs] : n \in 0..MaxOrder}

\* POST /admin/statuses/{status_id}/images/reorder, served alone: a commit
\* that breaks the check constraint is rolled back and answered 400.
ReorderImages ==
    /\ \E token \in Bearer :
        LET allowed == Authorize("admin", users, token)
        IN  IF allowed.status # 200
            THEN /\ resp' = Response("reorder_images", "admin", token, None,
                                     allowed.status, FALSE, None)
                 /\ UNCHANGED status_images
            ELSE \E status_id \in StatusRefs :
                IF status_id \notin ProductStatuses
                THEN /\ resp' = Response("reorder_images", "admin", token,
                                         Some([status_id |-> status_id]),
                                         404, TRUE, None)
                     /\ UNCHANGED status_images
                ELSE \E image_ids \in IdLists :
                    LET args == [status_id |-> status_id]
                        pending == reorder_status_images(status_images,
                                                         status_id, image_ids)
                    IN  IF CheckSortOrder(pending)
                        THEN /\ resp' = Response("reorder_images", "admin",
                                                 token, Some(args), 200,
                                                 TRUE, None)
                             /\ status_images' = pending
                        ELSE /\ resp' = Response("reorder_images", "admin",
                                                 token, Some(args), 400,
                                                 TRUE, None)
                             /\ UNCHANGED status_images
    /\ UNCHANGED <<users, tokens, scans, scan_images, stored, issued, reqs,
                   created, cam, callers, core>>

\* DELETE /admin/status-images/{image_id}, served alone
DeleteStatusImage ==
    /\ \E token \in Bearer :
        LET allowed == Authorize("admin", users, token)
        IN  IF allowed.status # 200
            THEN /\ resp' = Response("delete_status_image", "admin", token,
                                     None, allowed.status, FALSE, None)
                 /\ UNCHANGED <<status_images, stored>>
            ELSE \E image_id \in IdRefs :
                LET found == {r \in status_images : r.id = image_id}
                    args == [image_id |-> image_id]
                IN  IF found = {}
                    THEN /\ resp' = Response("delete_status_image", "admin",
                                             token, Some(args), 404, TRUE,
                                             None)
                         /\ UNCHANGED <<status_images, stored>>
                    ELSE LET item == CHOOSE r \in found : TRUE
                         IN  /\ resp' = Response("delete_status_image",
                                                 "admin", token, Some(args),
                                                 200, TRUE, None)
                             /\ status_images' =
                                    Renumbered(status_images \ {item},
                                               item.product_status_id)
                             /\ stored' = stored \ {item.image_path}
    /\ UNCHANGED <<users, tokens, scans, scan_images, issued, reqs, created,
                   cam, callers, core>>

InitImages ==
    /\ NoCore
    /\ NoCamera
    /\ Seeded
    /\ tokens = SeedTokens

NextImages ==
    \/ UploadStatusImage
    \/ ReorderImages
    \/ DeleteStatusImage

SpecImages == InitImages /\ [][NextImages]_vars

\* The file is one store_upload accepts: at most 5 MiB, and a jpeg or png
\* by its content type or by its extension.
WellFormed(file) ==
    /\ file.size <= 5 * 1024 * 1024
    /\ \/ file.content_type \in {"image/jpeg", "image/png"}
       \/ file.ext \in {".jpg", ".jpeg", ".png"}

\* how many images the status holds in those rows
Held(rows, status_id) ==
    Cardinality({r \in rows : r.product_status_id = status_id})

\* C22: with uploads, deletions and reorders served one at a time, a status
\* never holds more than 4 images.  An administrator's upload to a status
\* that holds 4 is answered 400 with "Maximum of 4 images ..." and adds no
\* row and no file; an upload of a well-formed image to a status that holds
\* fewer is answered 201 and adds one row and one file; an upload of a file
\* that is too large or of another type is answered 400 and adds nothing.
C22_StatusImageLimit ==
    /\ \A s \in ProductStatuses : Held(status_images, s) <= 4
    /\ (resp # None /\ Val(resp).op = "upload_status_image" /\ Val(resp).ran
        /\ Val(Val(resp).args).status_id \in ProductStatuses) =>
           LET r == Val(resp)
               status_id == Val(r.args).status_id
               file == Val(r.args).file
               held == Held(r.before.status_images, status_id)
               same == /\ status_images = r.before.status_images
                       /\ stored = r.before.stored
           IN  /\ held >= 4 =>
                      /\ r.status = 400
                      /\ r.data = Some(MaximumOf4)
                      /\ same
               /\ (held < 4 /\ WellFormed(file)) =>
                      /\ r.status = 201
                      /\ Held(status_images, status_id) = held + 1
                      /\ r.before.status_images \subseteq status_images
                      /\ Cardinality(stored \ r.before.stored) = 1
                      /\ r.before.stored \subseteq stored
               /\ (held < 4 /\ ~WellFormed(file)) =>
                      /\ r.status = 400
                      /\ same

\* Four uploads, a deletion and a fifth upload were served, and then an
\* upload of a well-formed image to the status, full again, was refused.
C22_Witness ==
    /\ resp # None
    /\ Val(resp).op = "upload_status_image"
    /\ Val(resp).status = 400
    /\ Val(resp).data = Some(MaximumOf4)
    /\ WellFormed(Val(Val(resp).args).file)
    /\ Held(status_images, "s1") = 4
    /\ issued = MaxUuids
    /\ Cardinality(stored) = 4

\* the sort_order values of the images of a status
SortOrders(status_id) ==
    {r.sort_order : r \in {q \in status_images :
                              q.product_status_id = status_id}}

\* C28: after any uploads, deletions and reorders served one at a time, the
\* sort_order values of the n images of a status are pairwise distinct and
\* are exactly 1..n.
C28_SortOrdersDense ==
    \A s \in ProductStatuses :
        /\ Cardinality(SortOrders(s)) = Held(status_images, s)
        /\ SortOrders(s) = 1..Held(status_images, s)

(***************************************************************************)
(* app/api/user.py, app/db/crud.py: scans and their history                *)
(*                                                                         *)
(* A scan row is held by its id, factory_id, user_id and product_id; the   *)
(* predicted status, the confidence and the notes are read by no filter    *)
(* modelled here.  Ids grow with the time of creation, as captured_at.     *)
(***************************************************************************)
MaxFiles == 2       \* files in one POST /user/scans
MaxScans == 2       \* scans created in one behaviour

\* table products: the seeded product
Products == {"p1"}

\* a product_id in a request; "p0" is in no row
ProductRefs == Products \cup {"p0"}

\* the files of one request, in order: jpegs as in the test, and text files
FileLists ==
    UNION {[1..n -> {u \in Uploads : u.ext \in {".jpg", ".txt"}}] :
              n \in 0..MaxFiles}

\* The files store_upload accepted before one raised ValueError, or all of
\* them.
RECURSIVE Accepted(_)
Accepted(uploads) ==
    IF uploads = <<>> THEN <<>>
    ELSE IF validate_upload(uploads[1]).raised # "none" THEN <<>>
    ELSE <<uploads[1]>> \o Accepted(Tail(uploads))

\* crud.create_scan that adds a ScanImage row for the first path only
create_scan_first(first_uuid, factory_id, user_id, product_id, image_paths) ==
    [scan |-> [id |-> first_uuid + 1, factory_id |-> factory_id,
               user_id |-> user_id, product_id |-> product_id],
     images |-> {[id |-> first_uuid + 1 + k, scan_id |-> first_uuid + 1,
                  image_path |-> image_paths[k]] :
                     k \in {j \in DOMAIN image_paths : j = 1}}]

\* crud.create_scan: the Scan row and one ScanImage row per path, their ids
\* drawn after first_uuid
create_scan(first_uuid, factory_id, user_id, product_id, image_paths) ==
    [scan |-> [id |-> first_uuid + 1, factory_id |-> factory_id,
               user_id |-> user_id, product_id |-> product_id],
     images |-> {[id |-> first_uuid + 1 + k, scan_id |-> first_uuid + 1,
                  image_path |-> image_paths[k]] :
                     k \in DOMAIN image_paths}]

\* POST /user/scans
CreateScan ==
    /\ \E token \in Bearer :
        LET allowed == Authorize("user", users, token)
        IN  IF allowed.status # 200
            THEN /\ resp' = Response("create_scan", "user", token, None,
                                     allowed.status, FALSE, None)
                 /\ UNCHANGED <<scans, scan_images, stored, issued, created>>
            ELSE \E product_id \in ProductRefs, uploads \in FileLists :
                LET user == allowed.user
                    args == [product_id |-> product_id, uploads |-> uploads]
                    answer(code, data) ==
                        Response("create_scan", "user", token, Some(args),
                                 code, TRUE, data)
                    accepted == Accepted(uploads)
                    image_paths ==
                        [k \in DOMAIN accepted |->
                            StoredPath(<<"scan_images", user>>, issued + k,
                                       validate_upload(accepted[k]).ext)]
                    made == create_scan(issued + Len(uploads),
                                        users[user].factory_id, user,
                                        product_id, image_paths)
                IN  IF product_id \notin Products
                    THEN /\ resp' = answer(404, None)
                         /\ UNCHANGED <<scans, scan_images, stored, issued,
                                        created>>
                    ELSE IF Len(accepted) < Len(uploads)
                    THEN \* the files stored so far are deleted again, and
                         \* their names are free again
                         /\ resp' = answer(400, None)
                         /\ UNCHANGED <<scans, scan_images, stored, issued,
                                        created>>
                    ELSE /\ issued + 2 * Len(uploads) + 1 <= MaxUuids
                         /\ Cardinality(scans) < MaxScans
                         /\ resp' = answer(201, Some(made.scan.id))
                         /\ issued' = issued + 2 * Len(uploads) + 1
                         /\ stored' = stored \cup
                                {image_paths[k] : k \in DOMAIN image_paths}
                         /\ scans' = scans \cup {made.scan}
                         /\ scan_images' = scan_images \cup made.images
                         /\ created' = created \cup
                                {[id |-> made.scan.id, user_id |-> user,
                                  factory_id |-> users[user].factory_id,
                                  n |-> Len(uploads)]}
    /\ UNCHANGED <<users, tokens, status_images, reqs, cam, callers, core>>

\* a set of rows as the list of their ids, the latest first
RECURSIVE LatestFirst(_)
LatestFirst(rows) ==
    IF rows = {} THEN <<>>
    ELSE LET latest == CHOOSE r \in rows : \A q \in rows : q.id <= r.id
         IN  <<latest.id>> \o LatestFirst(rows \ {latest})

\* the image paths of a scan, as the response lists them
ImagePaths(rows, scan_id) ==
    LET mine == {r \in rows : r.scan_id = scan_id}
        ids == LatestFirst(mine)
    IN  [k \in DOMAIN ids |->
            (CHOOSE r \in mine : r.id = ids[Len(ids) + 1 - k]).image_path]

\* crud.query_user_scans: the scans of the user's factory, filtered by
\* product when one is given
query_user_scans(rows, user, product_id) ==
    {s \in rows :
        /\ s.factory_id = user.factory_id
        /\ product_id # None => s.product_id = Val(product_id)}

\* GET /user/scans
ListScans ==
    /\ \E token \in Bearer :
        LET allowed == Authorize("user", users, token)
        IN  IF allowed.status # 200
            THEN resp' = Response("list_scans", "user", token, None,
                                  allowed.status, FALSE, None)
            ELSE \E product_id \in {None} \cup {Some(p) : p \in ProductRefs} :
                LET found == LatestFirst(
                                 query_user_scans(scans, users[allowed.user],
                                                  product_id))
                    out == [k \in DOMAIN found |->
                               [id |-> found[k],
                                images |-> ImagePaths(scan_images, found[k])]]
                IN  resp' = Response("list_scans", "user", token,
                                     Some([product_id |-> product_id]), 200,
                                     TRUE, Some(out))
    /\ UNCHANGED <<users, tokens, status_images, scans, scan_images, stored,
                   issued, reqs, created, cam, callers, core>>

\* a scan_id in a request: the id of a row, or 0, the id of none
ScanRefs == {s.id : s \in scans} \cup {0}

\* GET /user/scans/{scan_id}
GetScan ==
    /\ \E token \in Bearer :
        LET allowed == Authorize("user", users, token)
        IN  IF allowed.status # 200
            THEN resp' = Response("get_scan", "user", token, None,
                                  allowed.status, FALSE, None)
            ELSE \E scan_id \in ScanRefs :
                LET found == {s \in scans : s.id = scan_id}
                    args == Some([scan_id |-> scan_id])
                IN  IF found = {}
                       \/ \E s \in found :
                              s.factory_id # users[allowed.user].factory_id
                    THEN resp' = Response("get_scan", "user", token, args,
                                          404, TRUE, None)
                    ELSE resp' = Response("get_scan", "user", token, args,
                                          200, TRUE,
                                          Some([id |-> scan_id,
                                                images |->
                                                    ImagePaths(scan_images,
                                                               scan_id)]))
    /\ UNCHANGED <<users, tokens, status_images, scans, scan_images, stored,
                   issued, reqs, created, cam, callers, core>>

InitScans ==
    /\ NoCore
    /\ NoCamera
    /\ Seeded
    /\ tokens = SeedTokens

\* An administrator moves the operator to another factory, or deactivates
\* or reactivates the account.
UpdateOperator ==
    UpdateUserWith(Bearer, {"user"},
                   {p \in UserPayloads : p.role = "USER"})

NextScans ==
    \/ CreateScan
    \/ ListScans
    \/ GetScan
    \/ UpdateOperator

SpecScans == InitScans /\ [][NextScans]_vars


\* The response lists that scan: its id, with n image paths.
Lists(data, id, n) ==
    \E k \in DOMAIN data : data[k].id = id /\ Len(data[k].images) = n

\* The request passed authentication and the role check, with the token of
\* the user who created the scan c.
ByCreator(r, c) == r.ran /\ Val(r.token).sub = c.user_id

Overlap(a, b) ==
    {p \in (1..(MaxWidth + 3)) \X (1..(MaxWidth + 3)) :
        InBox(p, a) /\ InBox(p, b)}

\* p and q are the same pixel or neighbours by a side or a corner
Adjacent(p, q) ==
    /\ p[1] - q[1] <= 1 /\ q[1] - p[1] <= 1
    /\ p[2] - q[2] <= 1 /\ q[2] - p[2] <= 1

\* C24 as stated: no pixel lies inside two of the boxes mask_to_bboxes
\* returns for one mask.
C24_BoxesDisjoint ==
    (call.op = "mask_to_bboxes" /\ ret.raised = "none") =>
        \A i, j \in DOMAIN ret.bboxes :
            i # j => Overlap(ret.bboxes[i], ret.bboxes[j]) = {}

\* C24, amended: the boxes mask_to_bboxes returns are the extents of
\* different connected components, one box each, and those components are
\* pairwise disjoint and apart (no pixel of one is a pixel or a neighbour
\* of a pixel of another); a pixel that lies in two boxes is then a pixel
\* of at most one component.
C24_RegionsDisjoint ==
    (call.op = "mask_to_bboxes" /\ ret.raised = "none") =>
        LET big == {c \in Components(call.mask) :
                       Cardinality(c) >= call.min_area}
            boxes == ret.bboxes
        IN  /\ Len(boxes) = Cardinality(big)
            /\ \A i \in DOMAIN boxes : \E c \in big : boxes[i] = Extents(c)
            /\ \A c, d \in big :
                   c # d => \A p \in c, q \in d : ~Adjacent(p, q)
            /\ \A i, j \in DOMAIN boxes :
                   i # j =>
                       \A p \in Overlap(boxes[i], boxes[j]) :
                           Cardinality({c \in big : p \in c}) <= 1

\* A 3 x 3 mask with an L of five pixels along the left and bottom edges
\* and one pixel in the top right corner: two components, and the box of
\* the L, the whole mask, contains the box of the corner pixel.
C24_Witness ==
    /\ call.op = "mask_to_bboxes"
    /\ call.skimage = "loaded"
    /\ DOMAIN call.mask = (1..3) \X (1..3)
    /\ {ij \in DOMAIN call.mask : call.mask[ij] = 1}
           = {<<1, 1>>, <<2, 1>>, <<3, 1>>, <<3, 2>>, <<3, 3>>, <<1, 3>>}
    /\ call.min_area = 1
    /\ ret.raised = "none"
    /\ ret.bboxes = << <<0, 0, 3, 3>>, <<2, 0, 3, 1>> >>
    /\ Overlap(ret.bboxes[1], ret.bboxes[2]) = {<<1, 3>>}

(***************************************************************************)
(* models/mean_diff.py: one MeanDiffModel called from several threads      *)
(***************************************************************************)
Callers == {"t1", "t2"}

\* An image of shape s whose every value is v.
Plain(s, v) == [shape |-> s, px |-> [idx \in Idx3(s) |-> v]]

\* The image lists passed to fit: an empty one, three of one shape, and one
\* of mixed shapes.
FitInputs ==
    {<<>>,
     <<Plain(<<1, 1, 2>>, 0)>>,
     <<Plain(<<1, 1, 2>>, 0), Plain(<<1, 1, 2>>, 1)>>,
     <<Plain(<<1, 2, 1>>, 1)>>,
     <<Plain(<<1, 1, 2>>, 0), Plain(<<1, 2, 1>>, 1)>>}

\* The images passed to infer.
InferInputs == {Plain(<<1, 1, 2>>, 1), Plain(<<1, 2, 1>>, 0)}

\* A thread that is in no call; op, arg and ret are those of its last call,
\* seen is the fit that was the most recent one when that call began.
Resting ==
    [pc |-> "idle", op |-> "none", arg |-> None, seen |-> None,
     mean_read |-> None, ret |-> None]

Busy(t) == callers[t].pc # "idle"

\* What has happened so far: a call began while a fit was in progress or a
\* fit began while a call was in progress (overlapped); a fit replaced the
\* state left by an earlier fit (refitted).
Noted(overlap, refit) ==
    [op |-> "callers",
     overlapped |-> (call.overlapped \/ overlap),
     refitted |-> (call.refitted \/ refit)]

\* a.shape of an array held as a function on Idx3(s)
ShapeOf(a) == CHOOSE s \in Shapes : DOMAIN a = Idx3(s)

\* numpy broadcasting of two shapes of three axes
Broadcastable(s, t) == \A d \in 1..3 : s[d] = t[d] \/ s[d] = 1 \/ t[d] = 1
Broadcast(s, t) ==
    <<IF s[1] >= t[1] THEN s[1] ELSE t[1],
      IF s[2] >= t[2] THEN s[2] ELSE t[2],
      IF s[3] >= t[3] THEN s[3] ELSE t[3]>>

\* The element of a that broadcasting puts at idx: an axis of length 1 is
\* repeated.
At(a, idx) ==
    LET s == ShapeOf(a)
    IN  a[<<IF s[1] = 1 THEN 1 ELSE idx[1],
            IF s[2] = 1 THEN 1 ELSE idx[2],
            IF s[3] = 1 THEN 1 ELSE idx[3]>>]

\* np.abs(arr - mean) / (std + eps) at one element of the broadcast result
ZRead(m, sd, image, idx) ==
    LET d == At(image.px, idx) * Scale - At(m, idx)
    IN  ((IF d >= 0 THEN d ELSE 0 - d) * HeatScale) \div (At(sd, idx) + Eps)

\* MeanDiffModel.infer from the subtraction on: m is the mean the
\* subtraction read, sd the std the division read.
infer_reading(m, sd, image) ==
    IF \/ ~Broadcastable(image.shape, ShapeOf(m))
       \/ ~Broadcastable(Broadcast(image.shape, ShapeOf(m)), ShapeOf(sd))
    THEN Raise("ValueError")
    ELSE LET r == Broadcast(Broadcast(image.shape, ShapeOf(m)), ShapeOf(sd))
             heatmap ==
                 [ij \in Idx2(r) |->
                     SumTo([k \in 1..r[3] |->
                               ZRead(m, sd, image, <<ij[1], ij[2], k>>)],
                           r[3]) \div r[3]]
         IN  [raised |-> "none", score |-> MaxOf(heatmap),
              heatmap |-> heatmap]

fit_std_first(images) == Some(StdOf(<<images[1]>>))

\* self.std = stack.std(axis=0)
fit_std(images) == Some(StdOf(images))

\* fit up to np.stack: the checks, which assign nothing.
FitCall(t) ==
    /\ ~Busy(t)
    /\ \E images \in FitInputs :
           callers' = [callers EXCEPT ![t] =
               [pc |-> IF fit_raises(images) = "none" THEN "fit_mean"
                       ELSE "idle",
                op |-> "fit", arg |-> images, seen |-> last_fit,
                mean_read |-> None,
                ret |-> IF fit_raises(images) = "none" THEN None
                        ELSE Raise(fit_raises(images))]]
    /\ call' = Noted(\E u \in Callers \ {t} : Busy(u), FALSE)
    /\ UNCHANGED <<ret, rpm_table, mean, std, shape, last_fit, pipe, web, cam>>

\* self.mean = stack.mean(axis=0)
FitMean(t) ==
    /\ callers[t].pc = "fit_mean"
    /\ mean' = Some(MeanOf(callers[t].arg))
    /\ callers' = [callers EXCEPT ![t].pc = "fit_std"]
    /\ UNCHANGED <<call, ret, rpm_table, std, shape, last_fit, pipe, web, cam>>

FitStd(t) ==
    /\ callers[t].pc = "fit_std"
    /\ std' = fit_std(callers[t].arg)
    /\ callers' = [callers EXCEPT ![t].pc = "fit_shape"]
    /\ UNCHANGED <<call, ret, rpm_table, mean, shape, last_fit, pipe, web, cam>>

\* self.shape = stack.shape[1:], and the return
FitShape(t) ==
    /\ callers[t].pc = "fit_shape"
    /\ shape' = Some(callers[t].arg[1].shape)
    /\ last_fit' = Some(callers[t].arg)
    /\ callers' = [callers EXCEPT ![t].pc = "idle", ![t].ret = Raise("none")]
    /\ call' = Noted(FALSE, last_fit # None)
    /\ UNCHANGED <<ret, rpm_table, mean, std, pipe, web, cam>>

\* if self.mean is None or self.std is None
InferCall(t) ==
    /\ ~Busy(t)
    /\ \E image \in InferInputs :
           callers' = [callers EXCEPT ![t] =
               [pc |-> IF mean = None \/ std = None THEN "idle"
                       ELSE "infer_shape",
                op |-> "infer", arg |-> image, seen |-> last_fit,
                mean_read |-> None,
                ret |-> IF mean = None \/ std = None
                        THEN Raise("RuntimeError") ELSE None]]
    /\ call' = Noted(\E u \in Callers \ {t} :
                         callers[u].pc \in {"fit_mean", "fit_std", "fit_shape"},
                     FALSE)
    /\ UNCHANGED <<ret, rpm_table, mean, std, shape, last_fit, pipe, web, cam>>

\* if arr.shape != self.shape
InferShape(t) ==
    /\ callers[t].pc = "infer_shape"
    /\ IF shape = None \/ callers[t].arg.shape # Val(shape)
       THEN callers' = [callers EXCEPT ![t].pc = "idle",
                                       ![t].ret = Raise("ValueError")]
       ELSE callers' = [callers EXCEPT ![t].pc = "infer_mean"]
    /\ UNCHANGED <<call, ret, rpm_table, mean, std, shape, last_fit, pipe,
                   web, cam>>

\* arr - self.mean
InferMean(t) ==
    /\ callers[t].pc = "infer_mean"
    /\ callers' = [callers EXCEPT ![t].pc = "infer_std",
                                   ![t].mean_read = mean]
    /\ UNCHANGED <<call, ret, rpm_table, mean, std, shape, last_fit, pipe,
                   web, cam>>

\* ... / (self.std + self.eps), the heatmap, the score and the return
InferStd(t) ==
    /\ callers[t].pc = "infer_std"
    /\ callers' = [callers EXCEPT
           ![t].pc = "idle",
           ![t].mean_read = None,
           ![t].ret = infer_reading(Val(callers[t].mean_read), Val(std),
                                    callers[t].arg)]
    /\ UNCHANGED <<call, ret, rpm_table, mean, std, shape, last_fit, pipe,
                   web, cam>>

InitCallers ==
    /\ call = [op |-> "callers", overlapped |-> FALSE, refitted |-> FALSE]
    /\ ret = None
    /\ rpm_table = <<>>
    /\ mean = None
    /\ std = None
    /\ shape = None
    /\ last_fit = None
    /\ callers = [t \in Callers |-> Resting]
    /\ NoPipeline
    /\ NoWeb
    /\ NoCamera

NextCallers ==
    \E t \in Callers :
        \/ FitCall(t)
        \/ FitMean(t)
        \/ FitStd(t)
        \/ FitShape(t)
        \/ InferCall(t)
        \/ InferShape(t)
        \/ InferMean(t)
        \/ InferStd(t)

SpecCallers == InitCallers /\ [][NextCallers]_vars

\* The fields a model holds after the fit of the images in fit, or after no
\* fit.
FieldsAfter(fit) ==
    IF fit = None THEN <<None, None, None>>
    ELSE <<Some(MeanOf(Val(fit))), Some(StdOf(Val(fit))),
           Some(Val(fit)[1].shape)>>

\* Whenever no fit is in progress the fields are those computed from the most
\* recent successful fit, and every finished infer returned what infer
\* returns on the fields of the fit that was the most recent one when it
\* began.
AsLastFit ==
    /\ (\A t \in Callers :
            callers[t].pc \notin {"fit_mean", "fit_std", "fit_shape"})
       => <<mean, std, shape>> = FieldsAfter(last_fit)
    /\ \A t \in Callers :
           (callers[t].op = "infer" /\ ~Busy(t))
           => LET f == FieldsAfter(callers[t].seen)
              IN  callers[t].ret = infer(f[1], f[2], f[3], callers[t].arg)

\* C25 as stated: after any interleaving of fit and infer calls on one
\* MeanDiffModel, once every call has returned, the mean, std and shape are
\* those computed from the images of the most recent successful fit
\* (unfitted if none succeeded).
C25_StateOfLastFit ==
    (\A t \in Callers : ~Busy(t)) => <<mean, std, shape>> = FieldsAfter(last_fit)

\* C25, amended: as long as no fit call has overlapped another call (infer
\* calls interleave with one another freely), the mean, std and shape are
\* those computed from the images of the most recent successful fit
\* (unfitted if none succeeded): a successful fit replaces the previous state
\* completely, a failed fit and an infer change nothing, and interleaved
\* infer calls return what the same calls return run one after another.
C25_StateOfLastFitAlone == ~call.overlapped => AsLastFit

\* No fit has overlapped a call, a second fit has replaced the state of a
\* first, and two infer calls are in progress at once.
C25_Witness ==
    /\ ~call.overlapped
    /\ call.refitted
    /\ callers["t1"].pc = "infer_std"
    /\ callers["t2"].pc = "infer_mean"

(***************************************************************************)
(* pipeline.py: a sample whose raw heatmap is constant                     *)
(***************************************************************************)
\* The heatmap infer returned for the i-th test sample
RawHeatmapOf(i) ==
    HeatmapOf(Val(mean), Val(std), Val(dataset.test[i].content))

\* C26: for every sample with a record whose raw heatmap is near-constant
\* (max - min < 1e-12), the thresholded mask has no foreground pixel and the
\* box list is empty, under the fixed method with threshold_value in (0, 1]
\* and under the percentile method.
C26_FlatHeatmapNoRegion ==
    \A i \in DOMAIN results :
        (/\ MaxOf(RawHeatmapOf(i)) - MinOf(RawHeatmapOf(i)) <= 0
         /\ \/ cfg.threshold_method = "percentile"
            \/ /\ cfg.threshold_method = "fixed"
               /\ cfg.threshold_value > 0
               /\ cfg.threshold_value <= NormScale)
        => /\ \A ij \in DOMAIN MaskOf(i) : MaskOf(i)[ij] = 0
           /\ results[i].bboxes = <<>>

(***************************************************************************)
(* pipeline.py: the artifacts of samples in different label folders        *)
(***************************************************************************)
\* The normalized heatmap of the i-th test sample
NormalizedOf(i) ==
    normalize_heatmap(RawHeatmapOf(i), cfg.heatmap_normalize).value

\* C27: when run_pipeline has returned, distinct test samples have distinct
\* image_id values and distinct heatmap and mask paths, and the file at each
\* result's anomaly_heatmap_path / anomaly_mask_path holds the heatmap / mask
\* of that result's own sample.
C27_ArtifactsOfOwnSample ==
    pc = "returned" =>
        /\ \A i, j \in DOMAIN results :
               i # j =>
                   /\ results[i].image_id # results[j].image_id
                   /\ results[i].anomaly_heatmap_path
                          # results[j].anomaly_heatmap_path
                   /\ results[i].anomaly_mask_path
                          # results[j].anomaly_mask_path
        /\ \A i \in DOMAIN results :
               /\ files[results[i].anomaly_heatmap_path]
                      = HeatmapPng(NormalizedOf(i))
               /\ files[results[i].anomaly_mask_path] = MaskPng(MaskOf(i))

(***************************************************************************)
(* app/api/admin.py: upload requests served by several workers at once.    *)
(* Each request has its own session; every statement of a session reads    *)
(* the rows committed so far, and the table has no unique constraint on    *)
(* (product_status_id, sort_order).                                        *)
(***************************************************************************)
Workers == {"w1", "w2"}

\* A worker that serves no request; status is the answer to its last one.
Waiting ==
    [pc |-> "idle", status_id |-> None, file |-> None, path |-> None,
     order |-> None, status |-> None]

Answered(code) == [Waiting EXCEPT !.status = Some(code)]

\* The uuid4 values the requests being served have still to draw: one for
\* the file name, one for the row.
Pending(w) ==
    IF reqs[w].pc \in {"capacity", "store"} THEN 2
    ELSE IF reqs[w].pc \in {"order", "commit"} THEN 1
    ELSE 0

RECURSIVE PendingOf(_)
PendingOf(ws) ==
    IF ws = {} THEN 0
    ELSE LET w == CHOOSE x \in ws : TRUE
         IN  Pending(w) + PendingOf(ws \ {w})

\* The dependencies and db.get(models.ProductStatus, status_id)
BeginUpload(w) ==
    /\ reqs[w].pc = "idle"
    /\ issued + PendingOf(Workers) + 2 <= MaxUuids
    /\ \E token \in Bearer, status_id \in StatusRefs, file \in Uploads :
        LET allowed == Authorize("admin", users, token)
        IN  reqs' = [reqs EXCEPT ![w] =
                IF allowed.status # 200 THEN Answered(allowed.status)
                ELSE IF status_id \notin ProductStatuses THEN Answered(404)
                ELSE [Waiting EXCEPT !.pc = "capacity",
                                     !.status_id = Some(status_id),
                                     !.file = Some(file)]]
    /\ UNCHANGED <<users, tokens, status_images, scans, scan_images, stored,
                   issued, resp, created, cam, callers, core>>

\* crud.ensure_status_image_capacity(db, status_id)
CheckCapacity(w) ==
    /\ reqs[w].pc = "capacity"
    /\ reqs' = [reqs EXCEPT ![w] =
           IF ensure_status_image_capacity(
                  status_images, Val(reqs[w].status_id)).raised # "none"
           THEN Answered(400)
           ELSE [reqs[w] EXCEPT !.pc = "store"]]
    /\ UNCHANGED <<users, tokens, status_images, scans, scan_images, stored,
                   issued, resp, created, cam, callers, core>>

\* storage.store_upload(file, f"status_images/{status_id}")
StoreUpload(w) ==
    /\ reqs[w].pc = "store"
    /\ LET valid == validate_upload(Val(reqs[w].file))
           path == StoredPath(<<"status_images", Val(reqs[w].status_id)>>,
                              issued + 1, valid.ext)
       IN  IF valid.raised # "none"
           THEN /\ reqs' = [reqs EXCEPT ![w] = Answered(400)]
                /\ UNCHANGED <<stored, issued>>
           ELSE /\ reqs' = [reqs EXCEPT ![w].pc = "order",
                                        ![w].path = Some(path)]
                /\ stored' = stored \cup {path}
                /\ issued' = issued + 1
    /\ UNCHANGED <<users, tokens, status_images, scans, scan_images, resp,
                   created, cam, callers, core>>

\* crud.next_sort_order(db, status_id)
ChooseOrder(w) ==
    /\ reqs[w].pc = "order"
    /\ LET order == next_sort_order(status_images, Val(reqs[w].status_id))
       IN  reqs' = [reqs EXCEPT ![w] =
               IF order.raised # "none" THEN Answered(400)
               ELSE [reqs[w] EXCEPT !.pc = "commit",
                                    !.order = Some(order.order)]]
    /\ UNCHANGED <<users, tokens, status_images, scans, scan_images, stored,
                   issued, resp, created, cam, callers, core>>

\* db.add(item) and _commit_or_raise: the row passes the check constraint
\* and the foreign key, and no other constraint is declared.
CommitUpload(w) ==
    /\ reqs[w].pc = "commit"
    /\ LET item == [id |-> issued + 1,
                    product_status_id |-> Val(reqs[w].status_id),
                    image_path |-> Val(reqs[w].path),
                    sort_order |-> Val(reqs[w].order)]
       IN  IF CheckSortOrder(status_images \cup {item})
           THEN /\ status_images' = status_images \cup {item}
                /\ reqs' = [reqs EXCEPT ![w] = Answered(201)]
           ELSE /\ UNCHANGED status_images
                /\ reqs' = [reqs EXCEPT ![w] = Answered(400)]
    /\ issued' = issued + 1
    /\ UNCHANGED <<users, tokens, scans, scan_images, stored, resp, created,
                   cam, callers, core>>

InitUploads ==
    /\ NoCore
    /\ NoCamera
    /\ users = SeedUsers
    /\ tokens = SeedTokens
    /\ status_images = {}
    /\ scans = {}
    /\ scan_images = {}
    /\ stored = {}
    /\ issued = 0
    /\ reqs = [w \in Workers |-> Waiting]
    /\ resp = None
    /\ created = {}

NextUploads ==
    \E w \in Workers :
        \/ BeginUpload(w)
        \/ CheckCapacity(w)
        \/ StoreUpload(w)
        \/ ChooseOrder(w)
        \/ CommitUpload(w)

SpecUploads == InitUploads /\ [][NextUploads]_vars

\* C29: with upload requests for one status served concurrently, their
\* capacity check, sort-order choice and commit interleaved, the status
\* never holds more than 4 images nor two images with the same sort_order.
C29_ConcurrentUploadsKeepLimit ==
    \A s \in ProductStatuses :
        /\ Held(status_images, s) <= 4
        /\ \A a, b \in status_images :
               (a.product_status_id = s /\ b.product_status_id = s
                /\ a.sort_order = b.sort_order) => a = b

(***************************************************************************)
(* app/services/camera.py: CameraService.start and stop, called one after  *)
(* another by the user interface, and the capture threads they start       *)
(***************************************************************************)
MaxThreads == 3     \* capture threads started in one behaviour

\* A capture thread is at the VideoCapture call ("open"), at the loop test
\* ("test"), in the loop body ("body"), after the loop ("exit"), or ended
\* ("dead").
Alive(i) == threads[i].pc # "dead"

\* start.  The thread is created and started in the call.
Start ==
    /\ cam_pc = "idle"
    /\ Len(threads) < MaxThreads
    /\ call' = [op |-> "start", was_running |-> running]
    /\ IF running
       THEN UNCHANGED <<running, thread, threads>>
       ELSE /\ running' = TRUE
            /\ threads' = Append(threads, [pc |-> "open"])
            /\ thread' = Some(Len(threads) + 1)
    /\ UNCHANGED <<cam_pc, cap, ret, rpm_table, mean, std, shape, last_fit,
                   pipe, web, callers>>

\* stop, up to the join
Stop ==
    /\ cam_pc = "idle"
    /\ running' = FALSE
    /\ call' = [op |-> "stop", was_running |-> running]
    /\ cam_pc' = IF thread # None /\ Alive(Val(thread)) THEN "join"
                 ELSE "idle"
    /\ UNCHANGED <<thread, threads, cap, ret, rpm_table, mean, std, shape,
                   last_fit, pipe, web, callers>>

\* self._thread.join(timeout=1.5) returns: the thread has ended, or 1.5 s
\* have passed (a read or a callback of the loop body may take longer).
JoinReturns ==
    /\ cam_pc = "join"
    /\ cam_pc' = "idle"
    /\ call' = [op |-> "stop", was_running |-> call.was_running,
                timed_out |-> Alive(Val(thread))]
    /\ UNCHANGED <<running, thread, threads, cap, ret, rpm_table, mean, std,
                   shape, last_fit, pipe, web, callers>>

\* self._cap = cv2.VideoCapture(settings.camera_index): the device opens or
\* it does not
OpenCapture(i) ==
    /\ threads[i].pc = "open"
    /\ \E opened \in BOOLEAN : cap' = Some([owner |-> i, opened |-> opened])
    /\ threads' = [threads EXCEPT ![i].pc = "test"]
    /\ UNCHANGED <<running, thread, cam_pc, core, web, callers>>

\* while self._running.is_set() and self._cap.isOpened()
LoopTest(i) ==
    /\ threads[i].pc = "test"
    /\ threads' = [threads EXCEPT ![i].pc =
           IF running /\ Val(cap).opened THEN "body" ELSE "exit"]
    /\ UNCHANGED <<running, thread, cam_pc, cap, core, web, callers>>

\* the loop body: a frame is read and handed on, or the read fails
LoopBody(i) ==
    /\ threads[i].pc = "body"
    /\ threads' = [threads EXCEPT ![i].pc = "test"]
    /\ UNCHANGED <<running, thread, cam_pc, cap, core, web, callers>>

\* if self._cap: self._cap.release(), and the thread ends
Release(i) ==
    /\ threads[i].pc = "exit"
    /\ cap' = Some([Val(cap) EXCEPT !.opened = FALSE])
    /\ threads' = [threads EXCEPT ![i].pc = "dead"]
    /\ UNCHANGED <<running, thread, cam_pc, core, web, callers>>

InitCamera ==
    /\ NoCore
    /\ NoWeb
    /\ NoCamera

NextCamera ==
    \/ Start
    \/ Stop
    \/ JoinReturns
    \/ \E i \in DOMAIN threads :
           \/ OpenCapture(i)
           \/ LoopTest(i)
           \/ LoopBody(i)
           \/ Release(i)

SpecCamera == InitCamera /\ [][NextCamera]_vars

\* C30: after any sequence of start and stop calls at most one capture
\* thread is in the body of the frame loop at any time.
C30_OneCaptureLoop ==
    Cardinality({i \in DOMAIN threads : threads[i].pc = "body"}) <= 1

====
